---------------------------- MODULE Spec2Model ----------------------------
(***************************************************************************)
(* Model of secapi's asynchronous scan-job lifecycle: registration and the *)
(* authentication of requests (app/api/v1/endpoints/auth.py,               *)
(* app/core/dependencies.py, app/core/security.py), the scan endpoints     *)
(* (app/api/v1/endpoints/scans.py), the Celery task that runs a Trivy scan *)
(* (app/tasks/scan_tasks.py), the scanner adapter (app/scanners/trivy.py)  *)
(* and the broker settings (app/core/celery.py).                           *)
(* Python strings are TLA+ strings; characters are one-character strings.  *)
(***************************************************************************)
EXTENDS Integers, Sequences, FiniteSets, Bags, TLC

(***************************************************************************)
(* Bounds of the model.                                                    *)
(***************************************************************************)
\* number of scan ids uuid4() can hand out
MaxJobs == 2
\* number of worker losses (crash before the late ack) in one behaviour
MaxLost == 1

Null == "<None>"

(***************************************************************************)
(* Strings.                                                                *)
(***************************************************************************)
CharAt(s, i) == SubSeq(s, i, i)

StartsWith(s, p) == Len(s) >= Len(p) /\ SubSeq(s, 1, Len(p)) = p

Lower ==
    {"a","b","c","d","e","f","g","h","i","j","k","l","m",
     "n","o","p","q","r","s","t","u","v","w","x","y","z"}

Upper ==
    {"A","B","C","D","E","F","G","H","I","J","K","L","M",
     "N","O","P","Q","R","S","T","U","V","W","X","Y","Z"}

Digit == {"0","1","2","3","4","5","6","7","8","9"}

Whitespace == {" ", "\t", "\n", "\r", "\f"}

\* Strip taking one whitespace character off each end only
StripOnce(s) ==
    LET l == IF Len(s) > 0 /\ CharAt(s, 1) \in Whitespace THEN SubSeq(s, 2, Len(s)) ELSE s
    IN IF Len(l) > 0 /\ CharAt(l, Len(l)) \in Whitespace THEN SubSeq(l, 1, Len(l) - 1) ELSE l

\* str.strip(): surrounding whitespace removed
RECURSIVE LStrip(_)
LStrip(s) ==
    IF Len(s) > 0 /\ CharAt(s, 1) \in Whitespace
    THEN LStrip(SubSeq(s, 2, Len(s)))
    ELSE s

RECURSIVE RStrip(_)
RStrip(s) ==
    IF Len(s) > 0 /\ CharAt(s, Len(s)) \in Whitespace
    THEN RStrip(SubSeq(s, 1, Len(s) - 1))
    ELSE s

Strip(s) == RStrip(LStrip(s))

\* host.rstrip("/")
RECURSIVE RStripSlash(_)
RStripSlash(s) ==
    IF Len(s) > 0 /\ CharAt(s, Len(s)) = "/"
    THEN RStripSlash(SubSeq(s, 1, Len(s) - 1))
    ELSE s

\* every character of s[i..j] is in set, and the range is not empty
AllIn(s, i, j, set) == i <= j /\ \A k \in i..j : CharAt(s, k) \in set

(***************************************************************************)
(* IMAGE_RE, matched case-insensitively from the start of the string to    *)
(* its end.  No character class of the pattern holds "/", ":" or "@"       *)
(* (except the tag's, which holds none of "/", ":", "@" either), so each   *)
(* group can only end at the first such separator: the first "/" ends the  *)
(* host, if the text before it is a host, and the regex engine tries the   *)
(* host group before it tries to match without one.                        *)
(***************************************************************************)
HostCh == Lower \cup Upper \cup Digit \cup {".", "-"}
NamespaceCh == Lower \cup Upper \cup Digit \cup {"_"}
NameCh == Lower \cup Upper \cup Digit \cup {"_", "-"}
TagCh == Lower \cup Upper \cup Digit \cup {"_", ".", "-"}
DigestAlgCh == Lower \cup Upper \cup Digit \cup {"_"}
HexCh == Digit \cup {"a","b","c","d","e","f","A","B","C","D","E","F"}

\* (?:@(?P<digest>[a-z0-9_]+:[a-f0-9]+))?$  from position p
DigestEnd(s, p) ==
    \/ p = Len(s) + 1
    \/ /\ p <= Len(s)
       /\ CharAt(s, p) = "@"
       /\ \E c \in (p + 2)..(Len(s) - 1) :
            /\ CharAt(s, c) = ":"
            /\ AllIn(s, p + 1, c - 1, DigestAlgCh)
            /\ AllIn(s, c + 1, Len(s), HexCh)

\* (?::(?P<tag>[\w.-]+))? and what follows, from position p
TagDigestEnd(s, p) ==
    \/ DigestEnd(s, p)
    \/ /\ p <= Len(s)
       /\ CharAt(s, p) = ":"
       /\ \E e \in (p + 1)..Len(s) :
            AllIn(s, p + 1, e, TagCh) /\ DigestEnd(s, e + 1)

\* (?P<name>[a-z0-9_-]+) and what follows, from position p
NameEnd(s, p) ==
    \E e \in p..Len(s) : AllIn(s, p, e, NameCh) /\ TagDigestEnd(s, e + 1)

\* (?P<namespace>[a-z0-9_]+/)? and what follows, from position p
NamespaceEnd(s, p) ==
    \/ \E q \in (p + 1)..Len(s) :
         /\ CharAt(s, q) = "/"
         /\ AllIn(s, p, q - 1, NamespaceCh)
         /\ NameEnd(s, q + 1)
    \/ NameEnd(s, p)

\* [a-z0-9.-]+(:[0-9]+)?  is exactly s[i..j]
HostBody(s, i, j) ==
    \/ AllIn(s, i, j, HostCh)
    \/ \E c \in (i + 1)..(j - 1) :
         /\ CharAt(s, c) = ":"
         /\ AllIn(s, i, c - 1, HostCh)
         /\ AllIn(s, c + 1, j, Digit)

\* the positions q at which a host group s[1..q] lets the whole string match
HostEnds(s) ==
    {q \in 2..Len(s) :
        CharAt(s, q) = "/" /\ HostBody(s, 1, q - 1) /\ NamespaceEnd(s, q + 1)}

ImageReMatch(s) == HostEnds(s) # {} \/ NamespaceEnd(s, 1)

\* match.group("host") or ""
MatchedHost(s) ==
    IF HostEnds(s) # {}
    THEN SubSeq(s, 1, CHOOSE q \in HostEnds(s) : TRUE)
    ELSE ""

ALLOWED_REGISTRIES ==
    {"docker.io", "registry-1.docker.io", "ghcr.io", "gcr.io", "quay.io",
     "public.ecr.aws", "mcr.microsoft.com", ""}

\* The grave accent cannot be written in a TLA+ string; the character "^",
\* which the code treats like any other character no pattern accepts, stands
\* for it throughout the model.
Backtick == "^"

UnsafeChars == {"$", ";", "&", "|", Backtick, "\n", "\r"}

HasUnsafeChar(s) == \E k \in 1..Len(s) : CharAt(s, k) \in UnsafeChars

MaxImageLen == 500

ValidOk == "<valid>"

\* ValidateInput with every check left out
ValidateInputAny(image) == ValidOk

\* TrivyScanner.validate_input on {"image": image}: ValidOk, or the message
\* of the ScannerValidationError it raises
ValidateInput(image) ==
    LET img == Strip(image) IN
    IF image = Null THEN "'image' must be a string"
    ELSE IF img = "" \/ Len(img) > MaxImageLen THEN "Invalid image name"
    ELSE IF HasUnsafeChar(img) THEN "Invalid characters in image name"
    ELSE IF ~ImageReMatch(img) THEN "Invalid Docker image format: " \o img
    ELSE IF MatchedHost(img) # "" /\ RStripSlash(MatchedHost(img)) \notin ALLOWED_REGISTRIES
         THEN "Registry not allowed: " \o MatchedHost(img)
    ELSE ValidOk

\* DockerScanRequest.validate_image: the request is accepted (and the image
\* is then stored stripped) or rejected with 422
ImageAccepted(v) ==
    /\ v # Null
    /\ v # "" /\ Strip(v) # ""
    /\ Len(v) <= MaxImageLen
    /\ ~HasUnsafeChar(v)

\* DockerScanRequest.validate_image: the value the field gets, or the
\* message of the ValueError raised
ValidateImage(v) ==
    IF v = Null THEN [ok |-> FALSE, value |-> "Input should be a valid string"]
    ELSE IF v = "" \/ Strip(v) = "" THEN [ok |-> FALSE, value |-> "Image cannot be empty"]
    ELSE IF Len(v) > MaxImageLen THEN [ok |-> FALSE, value |-> "Image name too long"]
    ELSE IF HasUnsafeChar(v) THEN [ok |-> FALSE, value |-> "Invalid characters in image name"]
    ELSE [ok |-> TRUE, value |-> Strip(v)]

\* images a client may submit; all pass the request schema, not all pass
\* TrivyScanner.validate_input
RequestImages == {"nginx:latest", " evil.com/app"}

\* self.validate_input(input_data) as scan() calls it; its value on the
\* images of the model is computed once
ValidationMemo == [v \in {Strip(i) : i \in RequestImages} |-> ValidateInput(v)]

Validation(image) ==
    IF image \in DOMAIN ValidationMemo THEN ValidationMemo[image] ELSE ValidateInput(image)

(***************************************************************************)
(* The scanner process and its output.                                     *)
(***************************************************************************)
\* json.loads on the sample outputs: a decoded value with its Python type,
\* or the text of the JSONDecodeError.  A dict is a function of its keys.
StdoutFindings ==
    "[{\"Target\": \"nginx:latest\", \"Vulnerabilities\": [{\"VulnerabilityID\": \"CVE-1\", \"Severity\": \"Critical\"}]}]"
StdoutNoResults == "{\"SchemaVersion\": 2}"
StdoutScalar == "42"
StdoutMalformed == "FATAL image scan error"
\* two result objects, the first without a vulnerability list, the second
\* with three vulnerabilities, one of them without a severity
StdoutTwoTargets ==
    "[{\"Target\": \"os\"}, {\"Target\": \"app\", \"Vulnerabilities\": [{\"VulnerabilityID\": \"CVE-2\", \"Severity\": \"HIGH\"}, {\"VulnerabilityID\": \"CVE-3\"}, {\"VulnerabilityID\": \"CVE-4\", \"Severity\": \"moderate\"}]}]"
\* the report object of the scanner, the result objects under "Results"
StdoutObject ==
    "{\"SchemaVersion\": 2, \"Results\": [{\"Target\": \"nginx:latest\", \"Vulnerabilities\": [{\"VulnerabilityID\": \"CVE-5\", \"Severity\": \"LOW\"}, {\"VulnerabilityID\": \"CVE-6\", \"Severity\": \"CRITICAL\"}]}]}"
StdoutNullSeverity ==
    "[{\"Target\": \"nginx:latest\", \"Vulnerabilities\": [{\"VulnerabilityID\": \"CVE-7\", \"Severity\": null}]}]"
StdoutEmptyList == "[]"
StdoutString == "\"done\""
StdoutNull == "null"

JsonLoads(text) ==
    CASE text = StdoutFindings ->
           [error |-> "", type |-> "list",
            value |-> << [Target |-> "nginx:latest",
                          Vulnerabilities |->
                              << [VulnerabilityID |-> "CVE-1", Severity |-> "Critical"] >>] >>]
      [] text = StdoutTwoTargets ->
           [error |-> "", type |-> "list",
            value |-> << [Target |-> "os"],
                         [Target |-> "app",
                          Vulnerabilities |->
                              << [VulnerabilityID |-> "CVE-2", Severity |-> "HIGH"],
                                 [VulnerabilityID |-> "CVE-3"],
                                 [VulnerabilityID |-> "CVE-4", Severity |-> "moderate"] >>] >>]
      [] text = StdoutObject ->
           [error |-> "", type |-> "dict",
            value |-> [SchemaVersion |-> 2,
                       Results |->
                           << [Target |-> "nginx:latest",
                               Vulnerabilities |->
                                   << [VulnerabilityID |-> "CVE-5", Severity |-> "LOW"],
                                      [VulnerabilityID |-> "CVE-6", Severity |-> "CRITICAL"] >>] >>]]
      [] text = StdoutNullSeverity ->
           [error |-> "", type |-> "list",
            value |-> << [Target |-> "nginx:latest",
                          Vulnerabilities |->
                              << [VulnerabilityID |-> "CVE-7", Severity |-> Null] >>] >>]
      [] text = StdoutEmptyList ->
           [error |-> "", type |-> "list", value |-> << >>]
      [] text = StdoutNoResults ->
           [error |-> "", type |-> "dict", value |-> [SchemaVersion |-> 2]]
      [] text = StdoutScalar ->
           [error |-> "", type |-> "int", value |-> << >>]
      [] text = StdoutString ->
           [error |-> "", type |-> "str", value |-> << >>]
      [] text = StdoutNull ->
           [error |-> "", type |-> "NoneType", value |-> << >>]
      [] OTHER ->
           [error |-> "Expecting value: line 1 column 1 (char 0)", type |-> "", value |-> << >>]

\* dict.get(key, default)
Get(d, key, default) == IF key \in DOMAIN d THEN d[key] ELSE default

LowerLetters == "abcdefghijklmnopqrstuvwxyz"
UpperLetters == "ABCDEFGHIJKLMNOPQRSTUVWXYZ"

\* str.upper() of one character
UpperChar(c) ==
    IF c \in Lower
    THEN CharAt(UpperLetters, CHOOSE i \in 1..Len(LowerLetters) : CharAt(LowerLetters, i) = c)
    ELSE c

\* str.upper()
StrUpper(t) ==
    LET upper[i \in 0..Len(t)] ==
            IF i = 0 THEN "" ELSE upper[i - 1] \o UpperChar(CharAt(t, i))
    IN upper[Len(t)]

\* str.lower() of one character
LowerChar(c) ==
    IF c \in Upper
    THEN CharAt(LowerLetters, CHOOSE i \in 1..Len(UpperLetters) : CharAt(UpperLetters, i) = c)
    ELSE c

\* str.lower()
StrLower(t) ==
    LET lower[i \in 0..Len(t)] ==
            IF i = 0 THEN "" ELSE lower[i - 1] \o LowerChar(CharAt(t, i))
    IN lower[Len(t)]

\* severities a scanner may report, None among them
SeverityArguments ==
    {"CRITICAL", "Critical", "critical", "cRiTiCaL", "HIGH", "High", "high",
     "MEDIUM", "Medium", "medium", "MODERATE", "Moderate", "moderate",
     "LOW", "Low", "low", "INFO", "Info", "info", "UNKNOWN", "Unknown", "unknown",
     "NEGLIGIBLE", "", Null}

\* severity.upper(); its value on the severities of the model is computed
\* once
UpperMemo == [t \in SeverityArguments \ {Null} |-> StrUpper(t)]

UpperToken(t) == IF t \in DOMAIN UpperMemo THEN UpperMemo[t] ELSE StrUpper(t)

\* what a call ends with when it raises AttributeError: None has no upper()
AttributeError == "<AttributeError: 'NoneType' object has no attribute 'upper'>"

\* BaseScanner.normalize_severity: severity_map.get(severity.upper(), "INFO")
NormalizeSeverity(severity) ==
    IF severity = Null THEN AttributeError ELSE
    LET u == UpperToken(severity) IN
    CASE u = "CRITICAL" -> "CRITICAL"
      [] u = "HIGH" -> "HIGH"
      [] u = "MEDIUM" -> "MEDIUM"
      [] u = "MODERATE" -> "MEDIUM"
      [] u = "LOW" -> "LOW"
      [] u = "INFO" -> "INFO"
      [] u = "UNKNOWN" -> "INFO"
      [] OTHER -> "INFO"

\* the findings of one result object, in order
FindingsOf(result) ==
    LET vulns == Get(result, "Vulnerabilities", << >>) IN
    [i \in 1..Len(vulns) |->
        [id |-> Get(vulns[i], "VulnerabilityID", ""),
         severity |-> NormalizeSeverity(Get(vulns[i], "Severity", "UNKNOWN")),
         target |-> Get(result, "Target", ""),
         package_name |-> Get(vulns[i], "PkgName", ""),
         package_version |-> Get(vulns[i], "InstalledVersion", ""),
         fixed_version |-> Get(vulns[i], "FixedVersion", "")]]

\* TrivyScanner._normalize_findings
RECURSIVE NormalizeFindings(_)
NormalizeFindings(results) ==
    IF results = << >> THEN << >>
    ELSE FindingsOf(Head(results)) \o NormalizeFindings(Tail(results))

SummaryKeys == {"critical", "high", "medium", "low", "info"}

\* BaseScanner.create_scan_result: the summary is keyed in lower case and
\* looked up with the upper-cased severity of each finding
CreateScanResult(scan_type, scanner_version, findings, image) ==
    [scan_type |-> scan_type,
     status |-> "completed",
     metadata |-> [scanner_version |-> scanner_version, image |-> image],
     summary |-> [k \in SummaryKeys |->
                    Cardinality({i \in 1..Len(findings) :
                        UpperToken(findings[i].severity) = k})],
     findings |-> findings]

\* the standard outputs the scanner process of the model may write
SampleStdouts == {StdoutFindings, StdoutMalformed}

\* what subprocess.run can end with: the timeout expired, or the process
\* exited with a return code and its standard output
ProcResults ==
    {[timed_out |-> TRUE, returncode |-> 0, stdout |-> "", stderr |-> ""],
     [timed_out |-> FALSE, returncode |-> 1, stdout |-> StdoutMalformed,
      stderr |-> "FATAL image scan error"]}
    \cup {[timed_out |-> FALSE, returncode |-> 0, stdout |-> s, stderr |-> ""] :
            s \in SampleStdouts}

TimeoutSeconds == 300

\* None, and the empty dict: the values of a results argument that are falsy
NoDict == << >>

Raise(kind, message) == [raised |-> kind, message |-> message, value |-> NoDict]
Return(value) == [raised |-> "", message |-> "", value |-> value]

\* json.dumps of a result, the text the results column holds
JsonDumps(v) == ToString(v)

SnippetLen == 500

\* raw_output[:n]
Prefix(text, n) == IF Len(text) <= n THEN text ELSE SubSeq(text, 1, n)

\* TrivyScanner._parse_trivy_output: the dict it returns, or the
\* ScannerParseError it raises with its message and its raw_output
ParseTrivyOutput(raw_output) ==
    LET data == JsonLoads(raw_output) IN
    IF data.error # ""
    THEN [raised |-> "ScannerParseError",
          message |-> "Failed to parse Trivy JSON output: " \o data.error,
          raw_output |-> Prefix(raw_output, SnippetLen), value |-> NoDict]
    ELSE IF data.type = "list"
    THEN [raised |-> "", message |-> "", raw_output |-> Null,
          value |-> [Results |-> data.value]]
    ELSE IF data.type = "dict"
    THEN [raised |-> "", message |-> "", raw_output |-> Null, value |-> data.value]
    ELSE [raised |-> "ScannerParseError",
          message |-> "Unexpected output format from Trivy",
          raw_output |-> Null, value |-> NoDict]

\* TrivyScanner.scanner_version
ScannerVersion == "0.55.0"

\* scan() from the parse on: _parse_trivy_output, _normalize_findings on
\* parsed.get("Results", []) and create_scan_result; version is
\* self._detected_version or self.scanner_version
ParseAndNormalize(image, stdout, version) ==
    LET parsed == ParseTrivyOutput(stdout) IN
    IF parsed.raised # ""
    THEN Raise(parsed.raised, parsed.message)
    ELSE LET findings == NormalizeFindings(Get(parsed.value, "Results", << >>))
         IN IF \E i \in 1..Len(findings) : findings[i].severity = AttributeError
            THEN Raise("AttributeError", "'NoneType' object has no attribute 'upper'")
            ELSE Return(CreateScanResult("docker", "trivy-" \o version, findings, image))

\* ",".join(items)
RECURSIVE Join(_)
Join(items) ==
    IF items = << >> THEN ""
    ELSE IF Len(items) = 1 THEN items[1]
    ELSE items[1] \o "," \o Join(Tail(items))

\* scan(): options.get("severity", [...]) and options.get("scanners", [...])
\* of a task without options
DefaultSeverity == <<"CRITICAL", "HIGH", "MEDIUM", "LOW">>
DefaultScanners == <<"vuln">>

\* _execute_trivy: cmd, the argument vector of the scanner process; the
\* target is its last element
TrivyCommand(image, severity, scanners) ==
    <<"trivy", "image", "--format", "json", "--quiet",
      "--severity", Join([i \in 1..Len(severity) |-> StrUpper(severity[i])]),
      "--scanners", Join([i \in 1..Len(scanners) |-> StrLower(scanners[i])]),
      "--no-progress", image>>

\* the last position of the run of characters of set that starts at k
\* (k - 1 if there is none)
RECURSIVE RunEnd(_, _, _)
RunEnd(s, k, set) ==
    IF k <= Len(s) /\ CharAt(s, k) \in set THEN RunEnd(s, k + 1, set) ELSE k - 1

DotAt(s, k) == k <= Len(s) /\ CharAt(s, k) = "."

\* version:\s*(\d+\.\d+\.\d+) matched at position k: its group 1, or Null
VersionAt(s, k) ==
    IF k + 7 > Len(s) \/ SubSeq(s, k, k + 7) # "version:" THEN Null
    ELSE LET a == RunEnd(s, k + 8, Whitespace) + 1
             b == RunEnd(s, a, Digit)
             c == RunEnd(s, b + 2, Digit)
             d == RunEnd(s, c + 2, Digit)
         IN IF b >= a /\ DotAt(s, b + 1) /\ c >= b + 2 /\ DotAt(s, c + 1) /\ d >= c + 2
            THEN SubSeq(s, a, d)
            ELSE Null

\* _execute_trivy: re.search(r"version:\s*(\d+\.\d+\.\d+)", result.stderr) if
\* result.stderr is not empty: group 1 of the first match, or Null
DetectVersion(stderr) ==
    LET hits == {k \in 1..Len(stderr) : VersionAt(stderr, k) # Null} IN
    IF hits = {} THEN Null
    ELSE VersionAt(stderr, CHOOSE k \in hits : \A j \in hits : k <= j)

\* what _execute_trivy ends with
Executed(raised, returncode, stdout, cmd, detected_version) ==
    [raised |-> raised, returncode |-> returncode, stdout |-> stdout, cmd |-> cmd,
     detected_version |-> detected_version]

\* ExecuteTrivy without the test of the return code
ExecuteTrivyUnchecked(image, severity, scanners, proc) ==
    LET cmd == TrivyCommand(image, severity, scanners) IN
    IF proc.timed_out THEN Executed("TimeoutExpired", 0, "", cmd, Null)
    ELSE Executed("", proc.returncode, proc.stdout, cmd, DetectVersion(proc.stderr))

\* TrivyScanner._execute_trivy when subprocess.run ends with proc: the
\* exception it raises (TimeoutExpired of run, CalledProcessError of
\* check_returncode) or the standard output it returns, with the version
\* it detected
ExecuteTrivy(image, severity, scanners, proc) ==
    LET cmd == TrivyCommand(image, severity, scanners) IN
    IF proc.timed_out THEN Executed("TimeoutExpired", 0, "", cmd, Null)
    ELSE IF proc.returncode # 0
    THEN Executed("CalledProcessError", proc.returncode, proc.stdout, cmd, Null)
    ELSE Executed("", 0, proc.stdout, cmd, DetectVersion(proc.stderr))

\* self._detected_version or self.scanner_version
VersionOr(detected_version) ==
    IF detected_version = Null \/ detected_version = "" THEN ScannerVersion
    ELSE detected_version

\* TrivyScan with the standard error of the process put into the message
TrivyScanQuotingStderr(image, proc) ==
    IF Validation(image) # ValidOk
    THEN Raise("ScannerValidationError", Validation(image))
    ELSE LET run == ExecuteTrivy(image, DefaultSeverity, DefaultScanners, proc) IN
         IF run.raised = "TimeoutExpired"
         THEN Raise("ScannerTimeoutError",
                    "Scan timed out after " \o ToString(TimeoutSeconds) \o " seconds")
         ELSE IF run.raised = "CalledProcessError"
         THEN Raise("ScannerExecutionError",
                    "Scan failed with exit code " \o ToString(run.returncode)
                        \o ": " \o proc.stderr)
         ELSE ParseAndNormalize(image, run.stdout, VersionOr(run.detected_version))

\* TrivyScanner.scan on a task without options: what the call returns or
\* raises when the scanner process, if it gets to run, ends with proc
TrivyScan(image, proc) ==
    IF Validation(image) # ValidOk
    THEN Raise("ScannerValidationError", Validation(image))
    ELSE LET run == ExecuteTrivy(image, DefaultSeverity, DefaultScanners, proc) IN
         IF run.raised = "TimeoutExpired"
         THEN Raise("ScannerTimeoutError",
                    "Scan timed out after " \o ToString(TimeoutSeconds) \o " seconds")
         ELSE IF run.raised = "CalledProcessError"
         THEN Raise("ScannerExecutionError",
                    "Scan failed with exit code " \o ToString(run.returncode))
         ELSE ParseAndNormalize(image, run.stdout, VersionOr(run.detected_version))

\* scan(): the argument vector of the process it starts, none (the empty
\* one) if validate_input raises
ScanCommand(image) ==
    IF Validation(image) # ValidOk THEN << >>
    ELSE TrivyCommand(image, DefaultSeverity, DefaultScanners)

\* scan() on the images and process ends of the model, computed once
ScanMemo ==
    [image \in {Strip(i) : i \in RequestImages}, proc \in ProcResults |->
        TrivyScan(image, proc)]

Scan(image, proc) ==
    IF <<image, proc>> \in DOMAIN ScanMemo THEN ScanMemo[image, proc]
    ELSE TrivyScan(image, proc)

\* TrivyScanner.scan is declared with def, not async def
ScanIsCoroutine == FALSE

\* results = await scanner.scan(input_data): the call runs to its end, and
\* awaiting a value that is no awaitable raises TypeError
AwaitScan(image, proc) ==
    LET r == Scan(image, proc) IN
    IF r.raised = "" /\ ~ScanIsCoroutine
    THEN Raise("TypeError", "object dict can't be used in 'await' expression")
    ELSE r

\* ErrorMessage with the timeout clause writing the execution clause's text
ErrorMessageTimeoutAsExecution(exc) ==
    CASE exc.raised = "ScannerValidationError" -> "Invalid input: " \o exc.message
      [] exc.raised = "ScannerTimeoutError" -> "Scan execution failed: " \o exc.message
      [] exc.raised = "ScannerExecutionError" -> "Scan execution failed: " \o exc.message
      [] exc.raised = "ScannerParseError" -> "Failed to parse scan output: " \o exc.message
      [] exc.raised = "ScannerError" -> "Scan error: " \o exc.message
      [] OTHER -> "Unexpected error: " \o exc.message

\* ErrorMessage with the last clause, except Exception, writing no text
ErrorMessageUnexpectedBlank(exc) ==
    CASE exc.raised = "ScannerValidationError" -> "Invalid input: " \o exc.message
      [] exc.raised = "ScannerTimeoutError" -> "Scan timed out: " \o exc.message
      [] exc.raised = "ScannerExecutionError" -> "Scan execution failed: " \o exc.message
      [] exc.raised = "ScannerParseError" -> "Failed to parse scan output: " \o exc.message
      [] exc.raised = "ScannerError" -> "Scan error: " \o exc.message
      [] OTHER -> ""

\* the except clauses of _run_scan, in order: the error_message written
ErrorMessage(exc) ==
    CASE exc.raised = "ScannerValidationError" -> "Invalid input: " \o exc.message
      [] exc.raised = "ScannerTimeoutError" -> "Scan timed out: " \o exc.message
      [] exc.raised = "ScannerExecutionError" -> "Scan execution failed: " \o exc.message
      [] exc.raised = "ScannerParseError" -> "Failed to parse scan output: " \o exc.message
      [] exc.raised = "ScannerError" -> "Scan error: " \o exc.message
      [] OTHER -> "Unexpected error: " \o exc.message

(***************************************************************************)
(* The options of a scan request.                                          *)
(***************************************************************************)
\* the options of a request: a dict of the fields the client gave, a field
\* that is None being no key; NoOptions is a request without options
NoOptions == [none |-> TRUE]

SeverityLevels == {"CRITICAL", "HIGH", "MEDIUM", "LOW", "INFO"}
ScannerTypes == {"vuln", "config", "secret", "license"}

\* what a field validator ends with: the value of the field, or the
\* ValueError naming the invalid elements
Valid(value) == [ok |-> TRUE, value |-> value, invalid |-> {}]
Invalid(invalid) == [ok |-> FALSE, value |-> << >>, invalid |-> invalid]

\* validate_severity returning the list as it came
ValidateSeverityKeepingCase(v) ==
    LET invalid == {StrUpper(v[i]) : i \in 1..Len(v)} \ SeverityLevels IN
    IF invalid # {} THEN Invalid(invalid) ELSE Valid(v)

\* ScanRequestOptions.validate_severity on a list
ValidateSeverity(v) ==
    LET invalid == {StrUpper(v[i]) : i \in 1..Len(v)} \ SeverityLevels IN
    IF invalid # {} THEN Invalid(invalid)
    ELSE Valid([i \in 1..Len(v) |-> StrUpper(v[i])])

\* ScanRequestOptions.validate_scanners on a list
ValidateScanners(v) ==
    LET invalid == {StrLower(v[i]) : i \in 1..Len(v)} \ ScannerTypes IN
    IF invalid # {} THEN Invalid(invalid)
    ELSE Valid([i \in 1..Len(v) |-> StrLower(v[i])])

\* the request body passes the validators of its options
OptionsAccepted(options) ==
    \/ "none" \in DOMAIN options
    \/ /\ "severity" \in DOMAIN options => ValidateSeverity(options.severity).ok
       /\ "scanners" \in DOMAIN options => ValidateScanners(options.scanners).ok

\* ScanRequestOptions(**options): the fields as the validators return them
ScanRequestOptions(options) ==
    IF "none" \in DOMAIN options THEN options
    ELSE [k \in DOMAIN options |->
            IF k = "severity" THEN ValidateSeverity(options[k]).value
            ELSE ValidateScanners(options[k]).value]

\* request.options.model_dump(exclude_none=True) if request.options else None
ModelDump(options) == IF "none" \in DOMAIN options THEN Null ELSE options

(***************************************************************************)
(* The state: the scans table, the broker's queue, the worker processes.   *)
(***************************************************************************)
Users == {"alice", "bob"}
Workers == {"w1", "w2"}
ScanIds == 1..MaxJobs

\* NULL in started_at / completed_at
NoTime == 0

\* max_retries of task_retry_kwargs
MaxRetries == 3

\* autoretry_for of the execute_trivy_scan task: the decorator names none,
\* and the task_aut_retry_for / task_retry_kwargs keys set on the
\* configuration are no settings Celery reads
AutoRetryFor == {}

NoMsg == [scan_id |-> 0, image |-> "", retries |-> 0]
Idle == [pc |-> "idle", msg |-> NoMsg, raised |-> "", returned |-> FALSE, cmd |-> << >>]

VARIABLES
    users,      \* the users table: user -> row
    scans,      \* the scans table: scan id -> row
    queue,      \* the broker: bag of task messages not delivered
    workers,    \* worker -> the task it holds (unacknowledged) and where it is
    issued,     \* number of scan ids uuid4() has handed out
    accepted,   \* scan ids whose submission was answered 202
    clock,      \* scan id -> datetime.now(UTC) as the next update of that row
                \* reads it: time is kept per row, a row's later reading being
                \* later; ids are handed out in order, so the first reading
                \* of a row, its created_at, is later than that of the rows
                \* inserted before it
    lost,       \* number of worker losses so far
    attempts,   \* scan id -> number of scanner.scan() calls made for it
    call,       \* a call of a function of the program on its own: the function,
                \* its argument and what it returned
    requests,   \* the requests made of the /auth endpoints, in order of
                \* arrival: what each asked, where its handler is and what
                \* it answered
    reset_tokens \* the api_key_reset_tokens table, in order of insertion

vars == <<users, scans, queue, workers, issued, accepted, clock, lost, attempts, call,
          requests, reset_tokens>>

Terminal == {"completed", "failed"}

\* UpdateScanStatus without the elif branch that sets completed_at
UpdateScanStatusNoCompletedAt(db, scan_id, status, error_message, results, now) ==
    IF scan_id \notin DOMAIN db THEN db
    ELSE [db EXCEPT ![scan_id] =
            [@ EXCEPT
                !.status = status,
                !.started_at = IF status = "running" THEN now ELSE @,
                !.error_message =
                    IF error_message # Null /\ error_message # "" THEN error_message ELSE @,
                !.results = IF results # NoDict THEN JsonDumps(results) ELSE @]]

\* UpdateScanStatus without the "if results:" test: json.dumps(None) is
\* written on every update
UpdateScanStatusAlwaysResults(db, scan_id, status, error_message, results, now) ==
    IF scan_id \notin DOMAIN db THEN db
    ELSE [db EXCEPT ![scan_id] =
            [@ EXCEPT
                !.status = status,
                !.started_at = IF status = "running" THEN now ELSE @,
                !.completed_at = IF status \in Terminal THEN now ELSE @,
                !.error_message =
                    IF error_message # Null /\ error_message # "" THEN error_message ELSE @,
                !.results = IF results # NoDict THEN JsonDumps(results) ELSE "null"]]

\* UpdateScanStatus with the WHERE clause left out
UpdateScanStatusEveryRow(db, scan_id, status, error_message, results, now) ==
    [i \in DOMAIN db |->
        [db[i] EXCEPT
            !.status = status,
            !.started_at = IF status = "running" THEN now ELSE @,
            !.completed_at = IF status \in Terminal THEN now ELSE @,
            !.error_message =
                IF error_message # Null /\ error_message # "" THEN error_message ELSE @,
            !.results = IF results # NoDict THEN JsonDumps(results) ELSE @]]

\* update_scan_status: one UPDATE ... WHERE id = scan_id, committed
UpdateScanStatus(db, scan_id, status, error_message, results, now) ==
    IF scan_id \notin DOMAIN db THEN db
    ELSE [db EXCEPT ![scan_id] =
            [@ EXCEPT
                !.status = status,
                !.started_at = IF status = "running" THEN now ELSE @,
                !.completed_at = IF status \in Terminal THEN now ELSE @,
                !.error_message =
                    IF error_message # Null /\ error_message # "" THEN error_message ELSE @,
                !.results = IF results # NoDict THEN JsonDumps(results) ELSE @]]

\* NewScan with the row inserted as running
NewScanRunning(user, image, options) ==
    [user_id |-> user,
     scan_type |-> "trivy",
     status |-> "running",
     input_data |-> [image |-> image, options |-> ModelDump(options)],
     results |-> Null,
     error_message |-> Null,
     started_at |-> NoTime,
     completed_at |-> NoTime]

\* Scan(id=..., user_id=..., scan_type="trivy", status="pending", input_data=...)
NewScan(user, image, options) ==
    [user_id |-> user,
     scan_type |-> "trivy",
     status |-> "pending",
     input_data |-> [image |-> image, options |-> ModelDump(options)],
     results |-> Null,
     error_message |-> Null,
     started_at |-> NoTime,
     completed_at |-> NoTime]

\* TimestampMixin of app/db/base.py, which the sources at hand do not hold:
\* created_at is the time of the INSERT
TimestampMixin(now) == [created_at |-> now]

\* TaskMessages with delay() called a second time
TaskMessagesTwice(scan_id, image) ==
    SetToBag({[scan_id |-> scan_id, image |-> image, retries |-> 0]})
        (+) SetToBag({[scan_id |-> scan_id, image |-> image, retries |-> 0]})

\* TaskMessages with the call of delay() left out
TaskMessagesNone(scan_id, image) == EmptyBag

\* execute_trivy_scan.delay(...): the messages one submission publishes
TaskMessages(scan_id, image) ==
    SetToBag({[scan_id |-> scan_id, image |-> image, retries |-> 0]})

(***************************************************************************)
(* API keys and the authentication of a request.                           *)
(***************************************************************************)
\* the salts bcrypt.gensalt() may return
Salts == {"salt1", "salt2"}

\* generate_api_key(): the key handed to a user at registration
GenerateApiKey(user) == "secapi_" \o user

\* hash_api_key with the salt its call of bcrypt.gensalt() returned: the
\* bcrypt hash holds the salt, and is a function of the salt and the key
HashApiKey(api_key, salt) == [salt |-> salt, digest |-> <<salt, api_key>>]

\* verify_api_key: bcrypt.checkpw hashes the key with the salt of the hash
VerifyApiKey(api_key, hashed_key) == hashed_key.digest = <<hashed_key.salt, api_key>>

\* the Authorization header of a request: none, or a bearer token
NoCredentials == Null
Credentials == {GenerateApiKey(u) : u \in Users} \cup {"invalid_key"}

\* the status HTTPBearer() answers a request without a bearer token with:
\* 403 in the FastAPI releases before 0.122, 401 since; the repository
\* names no release
BearerMissingStatuses == {401, 403}

\* get_current_user: the user of a request, or the status of the
\* HTTPException raised; salt is what gensalt() returns in this call of
\* hash_api_key, bearer the status of HTTPBearer for a missing header
GetCurrentUser(table, credentials, salt, bearer) ==
    IF credentials = NoCredentials
    THEN [status |-> bearer, user |-> Null]
    ELSE LET found == {u \in DOMAIN table :
                          table[u].api_key_hash = HashApiKey(credentials, salt)}
         IN IF found = {}
            THEN [status |-> 401, user |-> Null]
            ELSE LET u == CHOOSE x \in found : TRUE IN
                 IF ~VerifyApiKey(credentials, table[u].api_key_hash)
                 THEN [status |-> 401, user |-> Null]
                 ELSE [status |-> 200, user |-> u]

(***************************************************************************)
(* The endpoints: the response of a request and the tables after it.       *)
(***************************************************************************)
Response(status, body, db, published) ==
    [status |-> status, body |-> body, scans |-> db, published |-> published]

\* POST /scan/docker with body {"image": v, "options": options}; id is the uuid4() of this
\* request, broker_up tells whether delay() reaches the broker
SubmitDockerScan(table, db, credentials, salt, bearer, v, options, id, now, broker_up) ==
    LET auth == GetCurrentUser(table, credentials, salt, bearer) IN
    IF auth.status # 200 THEN Response(auth.status, Null, db, EmptyBag)
    ELSE IF ~ImageAccepted(v) \/ ~OptionsAccepted(options)
    THEN Response(422, Null, db, EmptyBag)
    ELSE LET created == (id :> (NewScan(auth.user, Strip(v), ScanRequestOptions(options))
                                    @@ TimestampMixin(now))) @@ db IN
         IF broker_up
         THEN Response(202, [scan_id |-> id, status |-> "queued"], created,
                       TaskMessages(id, Strip(v)))
         ELSE Response(500, Null, created, EmptyBag)

\* GET /scans/{scan_id}
GetScanStatus(table, db, credentials, salt, bearer, scan_id) ==
    LET auth == GetCurrentUser(table, credentials, salt, bearer) IN
    IF auth.status # 200 THEN Response(auth.status, Null, db, EmptyBag)
    ELSE IF scan_id \notin DOMAIN db \/ db[scan_id].user_id # auth.user
    THEN Response(404, "Scan not found", db, EmptyBag)
    ELSE Response(200,
                  [scan_id |-> scan_id,
                   status |-> db[scan_id].status,
                   scan_type |-> db[scan_id].scan_type,
                   created_at |-> db[scan_id].created_at,
                   started_at |-> db[scan_id].started_at,
                   completed_at |-> db[scan_id].completed_at,
                   error_message |-> db[scan_id].error_message,
                   results |-> db[scan_id].results],
                  db, EmptyBag)

\* ScanStatusResponse of a row
ScanStatusResponse(db, scan_id) ==
    [scan_id |-> scan_id,
     status |-> db[scan_id].status,
     scan_type |-> db[scan_id].scan_type,
     created_at |-> db[scan_id].created_at,
     started_at |-> db[scan_id].started_at,
     completed_at |-> db[scan_id].completed_at,
     error_message |-> db[scan_id].error_message,
     results |-> db[scan_id].results]

\* OrderByCreatedAtDesc with the order turned round
RECURSIVE OrderByCreatedAtAsc(_, _)
OrderByCreatedAtAsc(db, ids) ==
    IF ids = {} THEN << >>
    ELSE LET first == CHOOSE i \in ids :
                          \A j \in ids : db[i].created_at <= db[j].created_at
         IN << first >> \o OrderByCreatedAtAsc(db, ids \ {first})

\* query.order_by(Scan.created_at.desc()) over the rows ids
RECURSIVE OrderByCreatedAtDesc(_, _)
OrderByCreatedAtDesc(db, ids) ==
    IF ids = {} THEN << >>
    ELSE LET first == CHOOSE i \in ids :
                          \A j \in ids : db[i].created_at >= db[j].created_at
         IN << first >> \o OrderByCreatedAtDesc(db, ids \ {first})

\* Query(1, ge=1) and Query(20, ge=1, le=100)
MinPage == 1
MinPageSize == 1
MaxPageSize == 100

\* query.offset(offset).limit(page_size) over the ordered rows
OffsetLimit(ordered, offset, page_size) ==
    IF offset >= Len(ordered) THEN << >>
    ELSE SubSeq(ordered, offset + 1,
                IF offset + page_size <= Len(ordered) THEN offset + page_size
                ELSE Len(ordered))

\* GET /scans?page=&page_size=&status=&type=
ListScans(table, db, credentials, salt, bearer, page, page_size, status_filter, scan_type) ==
    LET auth == GetCurrentUser(table, credentials, salt, bearer) IN
    IF auth.status # 200 THEN Response(auth.status, Null, db, EmptyBag)
    ELSE IF page < MinPage \/ page_size < MinPageSize \/ page_size > MaxPageSize
    THEN Response(422, Null, db, EmptyBag)
    ELSE LET rows == {i \in DOMAIN db :
                        /\ db[i].user_id = auth.user
                        /\ status_filter \notin {Null, ""} => db[i].status = status_filter
                        /\ scan_type \notin {Null, ""} => db[i].scan_type = scan_type}
             ordered == OrderByCreatedAtDesc(db, rows)
             window == OffsetLimit(ordered, (page - 1) * page_size, page_size)
         IN Response(200,
                     [total |-> Cardinality(rows),
                      scans |-> [k \in 1..Len(window) |-> ScanStatusResponse(db, window[k])],
                      page |-> page,
                      page_size |-> page_size],
                     db, EmptyBag)

\* DeleteScan without the test of the status
DeleteScanAnyStatus(table, db, credentials, salt, bearer, scan_id) ==
    LET auth == GetCurrentUser(table, credentials, salt, bearer) IN
    IF auth.status # 200 THEN Response(auth.status, Null, db, EmptyBag)
    ELSE IF scan_id \notin DOMAIN db \/ db[scan_id].user_id # auth.user
    THEN Response(404, "Scan not found", db, EmptyBag)
    ELSE Response(204, Null, [i \in DOMAIN db \ {scan_id} |-> db[i]], EmptyBag)

\* DeleteScan without the test of the owner
DeleteScanAnyOwner(table, db, credentials, salt, bearer, scan_id) ==
    LET auth == GetCurrentUser(table, credentials, salt, bearer) IN
    IF auth.status # 200 THEN Response(auth.status, Null, db, EmptyBag)
    ELSE IF scan_id \notin DOMAIN db
    THEN Response(404, "Scan not found", db, EmptyBag)
    ELSE IF db[scan_id].status \in {"pending", "running"}
    THEN Response(400, "Cannot delete scan in progress", db, EmptyBag)
    ELSE Response(204, Null, [i \in DOMAIN db \ {scan_id} |-> db[i]], EmptyBag)

\* DELETE /scans/{scan_id}
DeleteScan(table, db, credentials, salt, bearer, scan_id) ==
    LET auth == GetCurrentUser(table, credentials, salt, bearer) IN
    IF auth.status # 200 THEN Response(auth.status, Null, db, EmptyBag)
    ELSE IF scan_id \notin DOMAIN db \/ db[scan_id].user_id # auth.user
    THEN Response(404, "Scan not found", db, EmptyBag)
    ELSE IF db[scan_id].status \in {"pending", "running"}
    THEN Response(400, "Cannot delete scan in progress", db, EmptyBag)
    ELSE Response(204, Null, [i \in DOMAIN db \ {scan_id} |-> db[i]], EmptyBag)

\* User(email=..., api_key_hash=hash_api_key(api_key), tier="free"), the key
\* hashed with salt
NewUser(user, salt) ==
    [api_key_hash |-> HashApiKey(GenerateApiKey(user), salt), tier |-> "free"]

\* select(User).where(User.email == email), scalar_one_or_none(): whether a
\* user is found.  FindUserNever finds none.
FindUserNever(table, email) == FALSE

FindUser(table, email) == email \in DOMAIN table

\* db.add(user), db.commit(): users.email is unique, and the INSERT of a row
\* for an email that has one raises IntegrityError
InsertUser(table, email, row) ==
    IF email \in DOMAIN table
    THEN [raised |-> TRUE, users |-> table]
    ELSE [raised |-> FALSE, users |-> (email :> row) @@ table]

EmailExists == "User with this email already exists"

\* POST /auth/register run from its SELECT to its commit with no other
\* request in between: 409 for an email that has a user, else 201 and the
\* user stored
RegisterUser(table, email, salt) ==
    IF FindUser(table, email)
    THEN [status |-> 409, detail |-> EmailExists, users |-> table]
    ELSE LET inserted == InsertUser(table, email, NewUser(email, salt)) IN
         [status |-> IF inserted.raised THEN 500 ELSE 201, detail |-> "",
          users |-> inserted.users]

NoCall == [fn |-> "", sort |-> "", arg |-> "", ret |-> Null]

Init ==
    /\ users = << >>
    /\ scans = << >>
    /\ queue = EmptyBag
    /\ workers = [w \in Workers |-> Idle]
    /\ issued = 0
    /\ accepted = {}
    /\ clock = [id \in ScanIds |-> id]
    /\ lost = 0
    /\ attempts = [id \in ScanIds |-> 0]
    /\ call = NoCall
    /\ requests = << >>
    /\ reset_tokens = << >>

\* POST /auth/register, answered 201: the user is stored with the hash of
\* the key generated for it (409, and nothing stored, for a user there is)
Register(user, salt) ==
    LET r == RegisterUser(users, user, salt) IN
    /\ r.status = 201
    /\ users' = r.users
    /\ UNCHANGED <<scans, queue, workers, issued, accepted, clock, lost, attempts, call, requests, reset_tokens>>

\* POST /scan/docker, answered 202: the row is committed, then the task is
\* published.  (The requests that are actions carry a bearer token, so the
\* status of HTTPBearer for a missing one plays no part in them.)
Submit(credentials, salt, v) ==
    /\ issued < MaxJobs
    /\ LET id == issued + 1
           r == SubmitDockerScan(users, scans, credentials, salt, 401, v, NoOptions, id, clock[id], TRUE)
       IN
        /\ r.status = 202
        /\ scans' = r.scans
        /\ clock' = [clock EXCEPT ![id] = @ + 1]
        /\ queue' = queue (+) r.published
        /\ accepted' = accepted \cup {id}
    /\ issued' = issued + 1
    /\ UNCHANGED <<users, workers, lost, attempts, call, requests, reset_tokens>>

\* POST /scan/docker when the broker cannot be reached: the row is
\* committed, delay() raises, the request ends with 500
SubmitBrokerDown(credentials, salt, v) ==
    /\ issued < MaxJobs
    /\ LET id == issued + 1
           r == SubmitDockerScan(users, scans, credentials, salt, 401, v, NoOptions, id, clock[id], FALSE)
       IN
        /\ r.status = 500
        /\ scans' = r.scans
        /\ clock' = [clock EXCEPT ![id] = @ + 1]
    /\ issued' = issued + 1
    /\ UNCHANGED <<users, queue, workers, accepted, lost, attempts, call, requests, reset_tokens>>

\* DELETE /scans/{scan_id}, answered 204
Delete(credentials, salt, id) ==
    /\ LET r == DeleteScan(users, scans, credentials, salt, 401, id) IN
        /\ r.status = 204
        /\ scans' = r.scans
    /\ UNCHANGED <<users, queue, workers, issued, accepted, clock, lost, attempts, call, requests, reset_tokens>>

\* a worker process takes a message; with task_acks_late it stays
\* unacknowledged until the task has ended
Deliver(w) ==
    /\ workers[w].pc = "idle"
    /\ \E m \in BagToSet(queue) :
        /\ queue' = queue (-) SetToBag({m})
        /\ workers' = [workers EXCEPT ![w] = [Idle EXCEPT !.pc = "received", !.msg = m]]
    /\ UNCHANGED <<users, scans, issued, accepted, clock, lost, attempts, call, requests, reset_tokens>>

\* _run_scan: await update_scan_status(scan_uuid, "running")
MarkRunning(w) ==
    /\ workers[w].pc = "received"
    /\ scans' = UpdateScanStatus(scans, workers[w].msg.scan_id, "running", Null, NoDict,
                                  clock[workers[w].msg.scan_id])
    /\ clock' = [clock EXCEPT ![workers[w].msg.scan_id] = @ + 1]
    /\ workers' = [workers EXCEPT ![w].pc = "running"]
    /\ UNCHANGED <<users, queue, issued, accepted, lost, attempts, call, requests, reset_tokens>>

\* _run_scan: results = await scanner.scan(input_data), then the update to
\* completed, or the except clause of the exception raised and its update
\* to failed
RunScan(w) ==
    /\ workers[w].pc = "running"
    /\ \E proc \in ProcResults :
        LET m == workers[w].msg
            r == AwaitScan(m.image, proc)
        IN
        /\ scans' = IF r.raised = ""
                    THEN UpdateScanStatus(scans, m.scan_id, "completed", Null, r.value,
                                          clock[m.scan_id])
                    ELSE UpdateScanStatus(scans, m.scan_id, "failed", ErrorMessage(r), NoDict,
                                          clock[m.scan_id])
        /\ workers' = [workers EXCEPT ![w] =
                          [@ EXCEPT !.pc = "done", !.raised = r.raised,
                                    !.returned = (Scan(m.image, proc).raised = ""),
                                    !.cmd = ScanCommand(m.image)]]
        /\ attempts' = [attempts EXCEPT ![m.scan_id] = @ + 1]
        /\ clock' = [clock EXCEPT ![m.scan_id] = @ + 1]
    /\ UNCHANGED <<users, queue, issued, accepted, lost, call, requests, reset_tokens>>

\* the task has returned or raised: it is retried if its exception is one it
\* retries for and retries are left, and the message is acknowledged
TaskEnd(w) ==
    /\ workers[w].pc = "done"
    /\ queue' = IF workers[w].raised \in AutoRetryFor /\ workers[w].msg.retries < MaxRetries
                THEN queue (+) SetToBag({[workers[w].msg EXCEPT !.retries = @ + 1]})
                ELSE queue
    /\ workers' = [workers EXCEPT ![w] = Idle]
    /\ UNCHANGED <<users, scans, issued, accepted, clock, lost, attempts, call, requests, reset_tokens>>

\* the worker process is lost before the acknowledgement: with
\* task_acks_late and task_reject_on_worker_lost the message goes back to
\* the queue
WorkerLost(w) ==
    /\ workers[w].pc # "idle"
    /\ lost < MaxLost
    /\ queue' = queue (+) SetToBag({workers[w].msg})
    /\ workers' = [workers EXCEPT ![w] = Idle]
    /\ lost' = lost + 1
    /\ UNCHANGED <<users, scans, issued, accepted, clock, attempts, call, requests, reset_tokens>>

Next ==
    \/ \E u \in Users, salt \in Salts : Register(u, salt)
    \/ \E c \in Credentials, salt \in Salts, v \in RequestImages : Submit(c, salt, v)
    \/ \E c \in Credentials, salt \in Salts, v \in RequestImages : SubmitBrokerDown(c, salt, v)
    \/ \E c \in Credentials, salt \in Salts, id \in ScanIds : Delete(c, salt, id)
    \/ \E w \in Workers : Deliver(w)
    \/ \E w \in Workers : MarkRunning(w)
    \/ \E w \in Workers : RunScan(w)
    \/ \E w \in Workers : TaskEnd(w)
    \/ \E w \in Workers : WorkerLost(w)

Spec == Init /\ [][Next]_vars

\* a step of some worker process
WorkerStep == \E w \in Workers : Deliver(w) \/ MarkRunning(w) \/ RunScan(w) \/ TaskEnd(w)

\* the requests of one user whose key the lookup finds, and the workers
FairUsers == {"alice"}
FairSalts == {"salt1"}

FairNext ==
    \/ \E u \in FairUsers, salt \in FairSalts : Register(u, salt)
    \/ \E u \in FairUsers, salt \in FairSalts, v \in RequestImages :
          Submit(GenerateApiKey(u), salt, v)
    \/ \E u \in FairUsers, salt \in FairSalts, v \in RequestImages :
          SubmitBrokerDown(GenerateApiKey(u), salt, v)
    \/ \E u \in FairUsers, salt \in FairSalts, id \in ScanIds :
          Delete(GenerateApiKey(u), salt, id)
    \/ \E w \in Workers : Deliver(w)
    \/ \E w \in Workers : MarkRunning(w)
    \/ \E w \in Workers : RunScan(w)
    \/ \E w \in Workers : TaskEnd(w)
    \/ \E w \in Workers : WorkerLost(w)

\* workers keep taking tasks and every step of a task comes to its end:
\* while some worker has a step to take, a worker step is taken
FairSpec == Init /\ [][FairNext]_vars /\ WF_vars(WorkerStep)

(***************************************************************************)
(* The functions of the program called on their own, each on arguments     *)
(* drawn from a set of its own.                                            *)
(***************************************************************************)
RECURSIVE Repeat(_, _)
Repeat(c, n) ==
    IF n = 0 THEN ""
    ELSE IF n % 2 = 1 THEN c \o Repeat(c, n - 1)
    ELSE LET half == Repeat(c, n \div 2) IN half \o half

(***************************************************************************)
(* GET /scans/{scan_id}?format=table: the plain text table, as its lines.  *)
(* The box-drawing characters of the source are written = # | and -.       *)
(***************************************************************************)
\* f"{text:<width}"
PadRight(text, width) ==
    IF Len(text) >= width THEN text ELSE text \o Repeat(" ", width - Len(text))

BoxTop == "#" \o Repeat("=", 79) \o "#"
BoxTitle == "|" \o Repeat(" ", 30) \o "SECAPI SCAN RESULTS" \o Repeat(" ", 31) \o "|"
Rule == Repeat("-", 80)
TableHeader ==
    " " \o PadRight("SEVERITY", 10) \o " | " \o PadRight("VULN ID", 20) \o " | "
        \o PadRight("PACKAGE", 20) \o " | " \o "FIXED VERSION"

\* one table row
TableRow(finding) ==
    LET vuln_id == Prefix(Get(finding, "id", ""), 20)
        package == Prefix(Get(finding, "package_name", "") \o " "
                              \o Get(finding, "package_version", ""), 20)
        fixed == Prefix(Get(finding, "fixed_version", "N/A"), 20)
        severity == Prefix(Get(finding, "severity", "UNKNOWN"), 10)
    IN " " \o PadRight(severity, 10) \o " | " \o PadRight(vuln_id, 20) \o " | "
           \o PadRight(package, 20) \o " | " \o fixed

\* the line that tells how many findings the rows leave out
MoreLine(n) ==
    "... and " \o ToString(n) \o " more vulnerabilities (use ?limit=N to show more)"

\* MoreLineOf telling the number of all findings
MoreLineOfAll(findings, limit) ==
    IF Len(findings) > limit THEN << MoreLine(Len(findings)) >> ELSE << >>

\* the footer of the rows: len(findings) - limit more, when there are more
MoreLineOf(findings, limit) ==
    IF Len(findings) > limit THEN << MoreLine(Len(findings) - limit) >> ELSE << >>

\* findings[:limit]
FirstOf(findings, limit) ==
    IF Len(findings) <= limit THEN findings ELSE SubSeq(findings, 1, limit)

\* _format_scan_as_table: the lines joined by "\n"; now is the time of the
\* request, results_data the decoded results column (NoDict when there is
\* none)
FormatScanAsTable(scan_id, scan, results_data, limit, now) ==
    LET head == << BoxTop, BoxTitle, BoxTop, "",
                   "Scan ID:     " \o ToString(scan_id),
                   "Status:      " \o StrUpper(scan.status),
                   "Scanner:     " \o scan.scan_type,
                   "Created:     " \o ToString(scan.created_at) >>
        duration ==
            IF scan.started_at = NoTime THEN << >>
            ELSE << "Duration:    "
                     \o ToString((IF scan.completed_at # NoTime THEN scan.completed_at
                                  ELSE now) - scan.started_at) \o ".00s" >>
        error == IF scan.error_message \in {Null, ""} THEN << >>
                 ELSE << "Error:       " \o scan.error_message >>
        target == << "Target:      " \o scan.input_data.image, "" >>
        findings == Get(results_data, "findings", << >>)
        summary == Get(results_data, "summary", << >>)
        results ==
            CASE scan.status = "completed" /\ DOMAIN results_data # {} ->
                   << Rule, "SUMMARY", Rule,
                      "  Critical:  " \o ToString(Get(summary, "critical", 0)),
                      "  High:      " \o ToString(Get(summary, "high", 0)),
                      "  Medium:    " \o ToString(Get(summary, "medium", 0)),
                      "  Low:       " \o ToString(Get(summary, "low", 0)),
                      "" >>
                   \o (IF findings # << >>
                       THEN << Rule, "VULNERABILITIES", Rule, TableHeader, Rule >>
                            \o [k \in 1..Len(FirstOf(findings, limit)) |->
                                   TableRow(findings[k])]
                            \o MoreLineOf(findings, limit)
                       ELSE << Rule, "No vulnerabilities found!", Rule >>)
              [] scan.status = "running" ->
                   << Rule, "Scan is in progress... Check back later.", Rule >>
              [] scan.status = "pending" ->
                   << Rule, "Scan is queued... Check back later.", Rule >>
              [] scan.status = "failed" ->
                   << Rule, "Scan failed: "
                            \o (IF scan.error_message \in {Null, ""} THEN "Unknown error"
                                ELSE scan.error_message), Rule >>
              [] OTHER -> << >>
    IN head \o duration \o error \o << "" >> \o target \o results

\* image references put together from their components
RefHosts == {"", "ghcr.io", "docker.io", "evil.com", "localhost:5000"}
RefNamespaces == {"", "library"}
RefNames == {"nginx"}
RefTags == {"", "latest"}

References ==
    [host : RefHosts, namespace : RefNamespaces, name : RefNames, tag : RefTags]

RefText(r) ==
    (IF r.host = "" THEN "" ELSE r.host \o "/")
    \o (IF r.namespace = "" THEN "" ELSE r.namespace \o "/")
    \o r.name
    \o (IF r.tag = "" THEN "" ELSE ":" \o r.tag)

\* what a client may send as an image: references, text that is none, text
\* with unsafe characters, text longer than the limit; each also with
\* whitespace around it
ImageBodies ==
    {RefText(r) : r \in References}
    \cup {"", "a b", "UPPER/Case:Tag", "nginx@sha256:0a1b", "nginx:", "-/x",
          "nginx;ls", "ng$inx", "a&b", "a|b", "a" \o Backtick \o "b", "x\ny", "x\ry",
          Repeat("a", MaxImageLen), Repeat("a", MaxImageLen + 1),
          Repeat("a", MaxImageLen) \o "$"}

Paddings == {"", " ", "\t ", "\n", "\r"}

ImageArguments == {l \o b \o r : l \in Paddings, b \in ImageBodies, r \in Paddings}

\* what the scanner process may write to its standard output: the sample
\* outputs, and text that is no JSON, shorter and longer than the snippet
StdoutArguments ==
    {StdoutFindings, StdoutTwoTargets, StdoutObject, StdoutNullSeverity,
     StdoutEmptyList, StdoutNoResults, StdoutScalar, StdoutString, StdoutNull,
     StdoutMalformed, "", Repeat("x", SnippetLen), Repeat("x", SnippetLen + 1),
     Repeat("x", SnippetLen + 100)}

ExitCodes == {1, 2}
StderrTexts ==
    {"", "FATAL image scan error", "panic: /root/.cache/trivy/db token=abc",
     "trivy version: 0.56.1\n", "Version: 0.56.1", "version: dev"}

\* how the scanner process may end: the timeout expires, it exits with a
\* non-zero code whatever it wrote, it exits with 0 and an output
ProcArguments ==
    {[timed_out |-> TRUE, returncode |-> 0, stdout |-> "", stderr |-> ""]}
    \cup [timed_out : {FALSE}, returncode : ExitCodes,
          stdout : {"", StdoutMalformed, StdoutFindings}, stderr : StderrTexts]
    \cup [timed_out : {FALSE}, returncode : {0}, stdout : StdoutArguments,
          stderr : StderrTexts]

ScannedImage == "nginx:latest"

\* lists of at most two of the given elements
ListsOf(elements) ==
    {<< >>} \cup {<<a>> : a \in elements} \cup {<<a, b>> : a, b \in elements}

\* severity and scanners lists a client may send
SeverityLists ==
    ListsOf({"CRITICAL", "high", "Medium", "low", "Info", "UNKNOWN", "", " HIGH", "vuln"})
ScannersLists ==
    ListsOf({"vuln", "Config", "SECRET", "license", "misconfig", "", "vuln ", "HIGH"})

\* the options of the requests: none, and dicts with one or both fields
OptionsArguments ==
    {NoOptions, [k \in {} |-> << >>]}
    \cup {[severity |-> s] : s \in SeverityLists}
    \cup {[scanners |-> c] : c \in ScannersLists}
    \cup {[severity |-> s, scanners |-> c] :
            s \in ListsOf({"high", "LOW", "bad"}), c \in ListsOf({"Vuln", "secret", "bad"})}

\* the user whose requests are looked at, and the salt of the key's hash
Caller == "alice"
CallerSalt == "salt1"

\* the findings a stored result may hold: the third with an id longer than
\* its column
MaxFindings == 4

SampleFinding(k) ==
    [id |-> IF k = 3 THEN "CVE-2024-0000000000000003" ELSE "CVE-" \o ToString(k),
     severity |-> IF k % 2 = 1 THEN "HIGH" ELSE "LOW",
     target |-> ScannedImage,
     package_name |-> "openssl",
     package_version |-> "1.1." \o ToString(k),
     fixed_version |-> IF k = 2 THEN "" ELSE "1.1.9"]

SampleFindings(n) == [k \in 1..n |-> SampleFinding(k)]

\* Query(1000, ge=1, le=10000)
DefaultLimit == 1000
Limits == 1..(MaxFindings + 1) \cup {DefaultLimit}

\* the row of a job after its insertion and the updates to the given
\* statuses, in order
RECURSIVE RowAfter(_, _, _, _)
RowAfter(row, statuses, results, now) ==
    IF statuses = << >> THEN row
    ELSE LET status == Head(statuses)
             db == UpdateScanStatus((1 :> row), 1, status,
                                    IF status = "failed" THEN "Scan timed out: t" ELSE Null,
                                    IF status = "completed" THEN results ELSE NoDict, now)
         IN RowAfter(db[1], Tail(statuses), results, now + 1)

InsertedRow == NewScan(Caller, ScannedImage, NoOptions) @@ TimestampMixin(1)

\* what the table is rendered of: completed jobs with their results and a
\* limit, and jobs in the other statuses
TableArguments ==
    {[scan_id |-> 1,
      scan |-> RowAfter(InsertedRow, << "running", "completed" >>,
                        CreateScanResult("docker", "trivy-0.55.0", SampleFindings(n),
                                         ScannedImage), 2),
      results_data |-> CreateScanResult("docker", "trivy-0.55.0", SampleFindings(n),
                                        ScannedImage),
      limit |-> l] : n \in 0..MaxFindings, l \in Limits}
    \cup {[scan_id |-> 1, scan |-> RowAfter(InsertedRow, statuses, NoDict, 2),
           results_data |-> NoDict, limit |-> DefaultLimit] :
            statuses \in {<< >>, << "running" >>, << "running", "failed" >>}}

CallInit ==
    /\ users = (Caller :> NewUser(Caller, CallerSalt))
    /\ scans = << >>
    /\ queue = EmptyBag
    /\ workers = [w \in Workers |-> Idle]
    /\ issued = 0
    /\ accepted = {}
    /\ clock = [id \in ScanIds |-> id]
    /\ lost = 0
    /\ attempts = [id \in ScanIds |-> 0]
    /\ requests = << >>
    /\ reset_tokens = << >>
    /\ \/ call \in {[NoCall EXCEPT !.sort = "image", !.arg = a] : a \in ImageArguments}
       \/ call \in {[NoCall EXCEPT !.sort = "severity", !.arg = a] : a \in SeverityArguments}
       \/ call \in {[NoCall EXCEPT !.sort = "stdout", !.arg = a] : a \in StdoutArguments}
       \/ call \in {[NoCall EXCEPT !.sort = "proc", !.arg = a] : a \in ProcArguments}
       \/ call \in {[NoCall EXCEPT !.sort = "severities", !.arg = a] : a \in SeverityLists}
       \/ call \in {[NoCall EXCEPT !.sort = "scanners", !.arg = a] : a \in ScannersLists}
       \/ call \in {[NoCall EXCEPT !.sort = "options", !.arg = a] : a \in OptionsArguments}
       \/ call \in {[NoCall EXCEPT !.sort = "table", !.arg = a] : a \in TableArguments}

\* TrivyScanner().validate_input({"image": arg})
CallValidateInput ==
    /\ call.fn = ""
    /\ call.sort = "image"
    /\ call' = [call EXCEPT !.fn = "validate_input", !.ret = ValidateInput(call.arg)]
    /\ UNCHANGED <<users, scans, queue, workers, issued, accepted, clock, lost, attempts, requests, reset_tokens>>

\* DockerScanRequest(image=arg)
CallValidateImage ==
    /\ call.fn = ""
    /\ call.sort = "image"
    /\ call' = [call EXCEPT !.fn = "validate_image", !.ret = ValidateImage(call.arg)]
    /\ UNCHANGED <<users, scans, queue, workers, issued, accepted, clock, lost, attempts, requests, reset_tokens>>

\* BaseScanner.normalize_severity(arg)
CallNormalizeSeverity ==
    /\ call.fn = ""
    /\ call.sort = "severity"
    /\ call' = [call EXCEPT !.fn = "normalize_severity", !.ret = NormalizeSeverity(call.arg)]
    /\ UNCHANGED <<users, scans, queue, workers, issued, accepted, clock, lost, attempts, requests, reset_tokens>>

\* TrivyScanner()._parse_trivy_output(arg)
CallParseTrivyOutput ==
    /\ call.fn = ""
    /\ call.sort = "stdout"
    /\ call' = [call EXCEPT !.fn = "_parse_trivy_output", !.ret = ParseTrivyOutput(call.arg)]
    /\ UNCHANGED <<users, scans, queue, workers, issued, accepted, clock, lost, attempts, requests, reset_tokens>>

\* TrivyScanner().scan({"image": ScannedImage}), the scanner process ending
\* with arg
CallScan ==
    /\ call.fn = ""
    /\ call.sort = "proc"
    /\ call' = [call EXCEPT !.fn = "scan", !.ret = TrivyScan(ScannedImage, call.arg)]
    /\ UNCHANGED <<users, scans, queue, workers, issued, accepted, clock, lost, attempts, requests, reset_tokens>>

\* ScanRequestOptions(severity=arg)
CallValidateSeverity ==
    /\ call.fn = ""
    /\ call.sort = "severities"
    /\ call' = [call EXCEPT !.fn = "validate_severity", !.ret = ValidateSeverity(call.arg)]
    /\ UNCHANGED <<users, scans, queue, workers, issued, accepted, clock, lost, attempts, requests, reset_tokens>>

\* ScanRequestOptions(scanners=arg)
CallValidateScanners ==
    /\ call.fn = ""
    /\ call.sort = "scanners"
    /\ call' = [call EXCEPT !.fn = "validate_scanners", !.ret = ValidateScanners(call.arg)]
    /\ UNCHANGED <<users, scans, queue, workers, issued, accepted, clock, lost, attempts, requests, reset_tokens>>

\* POST /scan/docker with body {"image": ScannedImage, "options": arg} and
\* the key of Caller; the response and the tables after it
CallSubmitDockerScan ==
    /\ call.fn = ""
    /\ call.sort = "options"
    /\ call' = [call EXCEPT
                   !.fn = "submit_docker_scan",
                   !.ret = SubmitDockerScan(users, scans, GenerateApiKey(Caller), CallerSalt,
                                            401, ScannedImage, call.arg, issued + 1,
                                            clock[issued + 1], TRUE)]
    /\ UNCHANGED <<users, scans, queue, workers, issued, accepted, clock, lost, attempts, requests, reset_tokens>>

\* _format_scan_as_table(scan, results_data, limit) with the fields of arg
CallFormatScanAsTable ==
    /\ call.fn = ""
    /\ call.sort = "table"
    /\ call' = [call EXCEPT
                   !.fn = "_format_scan_as_table",
                   !.ret = FormatScanAsTable(call.arg.scan_id, call.arg.scan,
                                             call.arg.results_data, call.arg.limit,
                                             call.arg.scan.created_at + 3)]
    /\ UNCHANGED <<users, scans, queue, workers, issued, accepted, clock, lost, attempts, requests, reset_tokens>>

CallNext ==
    \/ CallValidateInput
    \/ CallValidateImage
    \/ CallNormalizeSeverity
    \/ CallParseTrivyOutput
    \/ CallScan
    \/ CallValidateSeverity
    \/ CallValidateScanners
    \/ CallSubmitDockerScan
    \/ CallFormatScanAsTable

CallSpec == CallInit /\ [][CallNext]_vars

(***************************************************************************)
(* The /auth endpoints, request by request: a handler is a coroutine, and  *)
(* the handlers of other requests run while it awaits the database.        *)
(***************************************************************************)
MaxRequests == 3

\* a request: what it asked, where its handler is ("commit": register() has
\* found no user and has not committed yet; "done": answered), and the
\* answer (status 0: none yet)
AuthRequest(op, email, salt, pc, status, body) ==
    [op |-> op, email |-> email, salt |-> salt, pc |-> pc, status |-> status, body |-> body]

\* secrets.token_urlsafe(32): the token of a reset asked for email
GenerateResetToken(email) == "reset_" \o email

\* settings.RESET_TOKEN_EXPIRY_MINUTES
ResetTokenExpiryMinutes == 15

ResetMessage == "If the email exists, a reset link was sent"

\* ApiKeyResetToken(email=, token_hash=, expires_at=): the row request_reset
\* stores, not used yet
ApiKeyResetToken(email, token_hash, expires_at) ==
    [email |-> email, token_hash |-> token_hash, expires_at |-> expires_at, used |-> FALSE]

\* request_reset answering one email and one thing for an account there is
\* and another for one there is not
RequestResetNotFound(table, tokens, email, salt, now, delivered) ==
    IF ~FindUser(table, email)
    THEN [status |-> 404, body |-> "User not found", reset_tokens |-> tokens, mail |-> {}]
    ELSE [status |-> 202, body |-> ResetMessage,
          reset_tokens |-> Append(tokens,
              ApiKeyResetToken(email, HashApiKey(GenerateResetToken(email), salt),
                               now + ResetTokenExpiryMinutes)),
          mail |-> IF delivered THEN {<<email, GenerateResetToken(email)>>} ELSE {}]

\* POST /auth/reset-request for email: the response (202 is the status the
\* route declares), the reset tokens after it and the mail sent; delivered
\* tells whether send_reset_email returned or raised, which the handler
\* logs and goes on from
RequestReset(table, tokens, email, salt, now, delivered) ==
    IF ~FindUser(table, email)
    THEN [status |-> 202, body |-> ResetMessage, reset_tokens |-> tokens, mail |-> {}]
    ELSE [status |-> 202, body |-> ResetMessage,
          reset_tokens |-> Append(tokens,
              ApiKeyResetToken(email, HashApiKey(GenerateResetToken(email), salt),
                               now + ResetTokenExpiryMinutes)),
          mail |-> IF delivered THEN {<<email, GenerateResetToken(email)>>} ELSE {}]

\* a register request arrives and its handler runs to the first await after
\* its SELECT: answered 409 if a user is found, else left before its commit
RegisterSelect(email, salt) ==
    /\ Len(requests) < MaxRequests
    /\ requests' = Append(requests,
          IF FindUser(users, email)
          THEN AuthRequest("register", email, salt, "done", 409, EmailExists)
          ELSE AuthRequest("register", email, salt, "commit", 0, ""))
    /\ UNCHANGED <<users, scans, queue, workers, issued, accepted, clock, lost, attempts, call, reset_tokens>>

\* the commit of the i-th request, a register: 201, or the IntegrityError of
\* an email stored since the SELECT, which nothing catches (500)
RegisterCommit(i) ==
    /\ requests[i].pc = "commit"
    /\ LET inserted == InsertUser(users, requests[i].email,
                                  NewUser(requests[i].email, requests[i].salt)) IN
        /\ users' = inserted.users
        /\ requests' = [requests EXCEPT ![i].pc = "done",
                                        ![i].status = IF inserted.raised THEN 500 ELSE 201]
    /\ UNCHANGED <<scans, queue, workers, issued, accepted, clock, lost, attempts, call, reset_tokens>>

\* a reset request, from arrival to answer
ResetRequest(email, salt, delivered) ==
    /\ Len(requests) < MaxRequests
    /\ LET r == RequestReset(users, reset_tokens, email, salt, Len(requests), delivered) IN
        /\ reset_tokens' = r.reset_tokens
        /\ requests' = Append(requests,
                              AuthRequest("reset", email, salt, "done", r.status, r.body))
    /\ UNCHANGED <<users, scans, queue, workers, issued, accepted, clock, lost, attempts, call>>

AuthNext ==
    \/ \E email \in Users, salt \in Salts : RegisterSelect(email, salt)
    \/ \E i \in 1..MaxRequests : i \in DOMAIN requests /\ RegisterCommit(i)
    \/ \E email \in Users, salt \in Salts, delivered \in BOOLEAN :
          ResetRequest(email, salt, delivered)

AuthSpec == Init /\ [][AuthNext]_vars


(***************************************************************************)
(* The claims.                                                             *)
(***************************************************************************)
Busy(w) == workers[w].pc # "idle"
JobOf(w) == workers[w].msg.scan_id

\* C1: once a job's status is completed or failed, no later step changes
\* its status.
C1_NoTransitionOutOfTerminal ==
    [][\A id \in DOMAIN scans :
          (scans[id].status \in Terminal /\ id \in DOMAIN scans')
              => scans'[id].status = scans[id].status]_vars

\* C2: a task delivered while its job is already completed or failed does
\* not go on to run: the worker holding it leaves the row as it is and does
\* not call the scanner.
C2_RedeliveryIsNoOp ==
    [][\A w \in Workers :
          (/\ workers[w].pc = "received"
           /\ JobOf(w) \in DOMAIN scans
           /\ scans[JobOf(w)].status \in Terminal
           /\ JobOf(w) \in DOMAIN scans')
              => /\ scans'[JobOf(w)] = scans[JobOf(w)]
                 /\ attempts'[JobOf(w)] = attempts[JobOf(w)]
                 /\ workers'[w].pc \in {"received", "idle"}]_vars

\* C3: in every state, a job's results are non-null if and only if its
\* status is completed.
C3_ResultIffCompleted ==
    \A id \in DOMAIN scans :
        (scans[id].results # Null) <=> (scans[id].status = "completed")

\* a job that a worker has executed and that is running again after a
\* redelivery, and another one that has failed
C3_Witness ==
    /\ \E id \in DOMAIN scans :
          scans[id].status = "running" /\ attempts[id] > 0 /\ scans[id].results = Null
    /\ \E id \in DOMAIN scans : scans[id].status = "failed" /\ scans[id].results = Null

\* C4: in every state, a job's error_message is non-null if and only if its
\* status is failed.
C4_ErrorIffFailed ==
    \A id \in DOMAIN scans :
        (scans[id].error_message # Null) <=> (scans[id].status = "failed")

C6_EventuallyTerminal ==
    \A id \in ScanIds :
        (id \in accepted) ~> (id \notin DOMAIN scans \/ scans[id].status \in Terminal)

\* an accepted job has been executed to a terminal status
C6_Witness ==
    \E id \in accepted :
        id \in DOMAIN scans /\ scans[id].status \in Terminal /\ attempts[id] > 0

\* C7: when the scan of a job returned a result (valid target, exit code 0,
\* output parsed), the job is completed, with completed_at set and the
\* result stored.
C7_SuccessfulScanCompletes ==
    \A w \in Workers :
        (workers[w].pc = "done" /\ workers[w].returned /\ JobOf(w) \in DOMAIN scans)
            => /\ scans[JobOf(w)].status = "completed"
               /\ scans[JobOf(w)].completed_at # NoTime
               /\ scans[JobOf(w)].results # Null

RetryablePrefixes == {"Scan timed out: ", "Scan execution failed: ", "Unexpected error: "}
PermanentPrefixes == {"Invalid input: ", "Failed to parse scan output: "}

HasPrefixIn(message, prefixes) ==
    message # Null /\ \E p \in prefixes : StartsWith(message, p)

\* C8: a job is failed with a retryable failure (timeout, execution error,
\* unexpected error) only when its attempts are exhausted.
C8_RetryableFailureRetried ==
    \A id \in DOMAIN scans :
        (scans[id].status = "failed" /\ HasPrefixIn(scans[id].error_message, RetryablePrefixes))
            => attempts[id] >= MaxRetries

\* C9: once a job has failed with a validation or parse error, the scanner
\* is never called for it again.
C9_PermanentFailureOneAttempt ==
    [][\A id \in DOMAIN scans :
          HasPrefixIn(scans[id].error_message, PermanentPrefixes)
              => attempts'[id] = attempts[id]]_vars

\* the prefix the failure kind of an exception is to be reported with
PrefixOfKind(raised) ==
    CASE raised = "ScannerValidationError" -> "Invalid input: "
      [] raised = "ScannerTimeoutError" -> "Scan timed out: "
      [] raised = "ScannerExecutionError" -> "Scan execution failed: "
      [] raised = "ScannerParseError" -> "Failed to parse scan output: "
      [] OTHER -> "Unexpected error: "

FailureKinds ==
    {"ScannerValidationError", "ScannerTimeoutError", "ScannerExecutionError",
     "ScannerParseError", "TypeError"}

\* C10: the error_message a failed execution has written starts with the
\* prefix of the kind of the exception that ended it, and with the prefix of
\* no other kind.
C10_PrefixOfFailureKind ==
    \A w \in Workers :
        (workers[w].pc = "done" /\ workers[w].raised # "" /\ JobOf(w) \in DOMAIN scans)
            => /\ scans[JobOf(w)].status = "failed"
               /\ \A k \in FailureKinds :
                    StartsWith(scans[JobOf(w)].error_message, PrefixOfKind(k))
                        <=> PrefixOfKind(k) = PrefixOfKind(workers[w].raised)

\* a worker has just failed a job on a timeout, and a job failed on a parse
\* error is on record
C10_Witness ==
    /\ \E w \in Workers : workers[w].pc = "done" /\ workers[w].raised = "ScannerTimeoutError"
    /\ \E id \in DOMAIN scans :
          scans[id].status = "failed"
          /\ StartsWith(scans[id].error_message, "Failed to parse scan output: ")

\* C11: in every state, created_at <= started_at <= completed_at holds for
\* those of a job's three timestamps that are set, a redelivered execution
\* included.
C11_TimestampsOrdered ==
    \A id \in DOMAIN scans :
        LET row == scans[id] IN
        /\ row.started_at # NoTime => row.created_at <= row.started_at
        /\ row.completed_at # NoTime => row.created_at <= row.completed_at
        /\ (row.started_at # NoTime /\ row.completed_at # NoTime)
              => row.started_at <= row.completed_at

\* the table without the row of id, every other row as it was
Without(db, id) == [i \in DOMAIN db \ {id} |-> db[i]]

\* the requests (bearer token, salt drawn by the lookup) that authenticate as
\* the given user
RequestsAs(user) ==
    {q \in Credentials \X Salts :
        LET auth == GetCurrentUser(users, q[1], q[2], 401) IN
        auth.status = 200 /\ auth.user = user}

\* C12: a delete request by the owner of a pending or running job is
\* answered 400 and leaves the table as it is; a delete request by the owner
\* of a completed or failed job is answered 204 and removes that row and no
\* other.
C12_DeleteByOwner ==
    \A id \in DOMAIN scans : \A q \in RequestsAs(scans[id].user_id) :
        LET r == DeleteScan(users, scans, q[1], q[2], 401, id) IN
        IF scans[id].status \in {"pending", "running"}
        THEN r.status = 400 /\ r.scans = scans
        ELSE r.status = 204 /\ r.scans = Without(scans, id)

\* a job has been deleted, and its owner, whose key the lookup finds, has
\* another job in progress and could ask to delete that one
C12_Witness ==
    /\ \E id \in 1..issued : id \notin DOMAIN scans /\ attempts[id] > 0
    /\ \E id \in DOMAIN scans :
          scans[id].status \in {"pending", "running"} /\ RequestsAs(scans[id].user_id) # {}

\* C13: for a caller who does not own a job, get and delete of its id are
\* answered as for an id there is no job of: 404 with the same body, the
\* row not returned, the table as it was.
C13_NonOwnerSeesNotFound ==
    \A id \in DOMAIN scans : \A u \in Users \ {scans[id].user_id} :
        \A q \in RequestsAs(u) : \A absent \in (0..MaxJobs) \ DOMAIN scans :
            LET g == GetScanStatus(users, scans, q[1], q[2], 401, id)
                d == DeleteScan(users, scans, q[1], q[2], 401, id)
            IN
            /\ g.status = 404 /\ d.status = 404
            /\ g = GetScanStatus(users, scans, q[1], q[2], 401, absent)
            /\ d = DeleteScan(users, scans, q[1], q[2], 401, absent)
            /\ g.scans = scans /\ d.scans = scans

\* a failed job, which its owner could delete, and another user whose key
\* the lookup finds
C13_Witness ==
    \E id \in DOMAIN scans : \E u \in Users \ {scans[id].user_id} :
        scans[id].status = "failed" /\ RequestsAs(u) # {}

\* C15: a request that carries the API key issued to a registered user is
\* authenticated as that user, and is not answered 401.
C15_IssuedKeyAuthenticates ==
    \A u \in DOMAIN users : \A salt \in Salts :
        GetCurrentUser(users, GenerateApiKey(u), salt, 401) = [status |-> 200, user |-> u]

\* the bearer tokens that are the key of no registered user
UnknownCredentials == {c \in Credentials : \A u \in DOMAIN users : c # GenerateApiKey(u)}

\* C16: a submit, get, list or delete request without a bearer token, or
\* with a token that matches no user, is answered 401 and creates,
\* enqueues, returns, modifies and deletes nothing.
C16_UnauthenticatedIs401 ==
    \A c \in UnknownCredentials \cup {NoCredentials} :
      \A salt \in Salts : \A bearer \in BearerMissingStatuses :
        \A v \in RequestImages : \A id \in 0..MaxJobs :
            LET refused == Response(401, Null, scans, EmptyBag) IN
            /\ SubmitDockerScan(users, scans, c, salt, bearer, v, NoOptions, issued + 1, 1, TRUE) = refused
            /\ GetScanStatus(users, scans, c, salt, bearer, id) = refused
            /\ ListScans(users, scans, c, salt, bearer, 1, 20, Null, Null) = refused
            /\ DeleteScan(users, scans, c, salt, bearer, id) = refused

\* C14: a target the validator of image references rejects is refused at
\* submission with 422: no row is created and no task is published for it.
C14_RejectedAtSubmission ==
    \A v \in RequestImages : \A u \in Users : \A q \in RequestsAs(u) :
        Validation(Strip(v)) # ValidOk
            => LET r == SubmitDockerScan(users, scans, q[1], q[2], 401, v, NoOptions, issued + 1, 1, TRUE)
               IN r.status = 422 /\ r.scans = scans /\ r.published = EmptyBag

\* C17: a string that holds one of the unsafe characters, at any place, is
\* rejected by the validator with the error of unsafe characters.
C17_UnsafeCharactersRejected ==
    /\ (call.fn = "validate_input" /\ HasUnsafeChar(call.arg))
          => call.ret = "Invalid characters in image name"
    /\ (call.fn = "validate_image" /\ HasUnsafeChar(call.arg))
          => call.ret = [ok |-> FALSE, value |-> "Invalid characters in image name"]

\* C18: validating the trimmed output of an accepted input again accepts it
\* and gives the same string.
C18_ValidationIdempotent ==
    /\ (call.fn = "validate_image" /\ call.ret.ok)
          => ValidateImage(call.ret.value) = call.ret
    /\ (call.fn = "validate_input" /\ call.ret = ValidOk)
          => /\ ValidateInput(Strip(call.arg)) = ValidOk
             /\ Strip(Strip(call.arg)) = Strip(call.arg)

\* an input with whitespace around it has been accepted and trimmed
C18_Witness ==
    /\ call.fn = "validate_image"
    /\ call.ret.ok
    /\ Len(call.ret.value) + 2 = Len(call.arg)

\* C19: a well-formed reference without a host is accepted, and one with a
\* host is accepted if and only if the host is in the allow-list.
C19_AllowListOnlyForHosts ==
    \A r \in References :
        (call.fn = "validate_input" /\ call.arg = RefText(r))
            => (call.ret = ValidOk <=> (r.host = "" \/ r.host \in ALLOWED_REGISTRIES))

\* the severity the normalization is to give
ExpectedSeverity(token) ==
    CASE token \in {"CRITICAL", "Critical", "critical", "cRiTiCaL"} -> "CRITICAL"
      [] token \in {"HIGH", "High", "high"} -> "HIGH"
      [] token \in {"MEDIUM", "Medium", "medium", "MODERATE", "Moderate", "moderate"} -> "MEDIUM"
      [] token \in {"LOW", "Low", "low"} -> "LOW"
      [] OTHER -> "INFO"

\* C20: the normalization of a severity never fails: CRITICAL, HIGH, MEDIUM,
\* LOW and INFO in any letter case give themselves, MODERATE gives MEDIUM,
\* and every other token, UNKNOWN and a null severity among them, gives INFO.
C20_SeverityNormalizationTotal ==
    call.fn = "normalize_severity" => call.ret = ExpectedSeverity(call.arg)

\* the scan calls that returned a ScanResult
ScanReturned == call.fn = "scan" /\ call.ret.raised = ""

\* how many findings of a result carry the severity
CountOf(findings, severity) ==
    Cardinality({i \in 1..Len(findings) : findings[i].severity = severity})

\* C21: in every ScanResult the summary count of each of the five buckets
\* (critical, high, medium, low, info) is the number of findings with that
\* normalized severity, so the counts add up to the number of findings.
C21_SummaryCountsFindings ==
    ScanReturned =>
        LET result == call.ret.value IN
        /\ DOMAIN result.summary = SummaryKeys
        /\ \A k \in SummaryKeys :
               result.summary[k] = CountOf(result.findings, StrUpper(k))
        /\ result.summary["critical"] + result.summary["high"]
               + result.summary["medium"] + result.summary["low"]
               + result.summary["info"] = Len(result.findings)

\* the result objects the scanner's output holds, decoded
ResultObjects(stdout) ==
    LET data == JsonLoads(stdout) IN
    IF data.type = "list" THEN data.value ELSE Get(data.value, "Results", << >>)

\* the vulnerabilities of the result objects from the r-th on, in input
\* order, each as the pair of its result object and its place in the list
RECURSIVE VulnerabilitiesFrom(_, _)
VulnerabilitiesFrom(results, r) ==
    IF r > Len(results) THEN << >>
    ELSE LET n == IF "Vulnerabilities" \in DOMAIN results[r]
                  THEN Len(results[r].Vulnerabilities) ELSE 0
         IN [v \in 1..n |-> [result |-> r, vuln |-> v]]
            \o VulnerabilitiesFrom(results, r + 1)

NormalizedSeverities == {"CRITICAL", "HIGH", "MEDIUM", "LOW", "INFO"}

\* the scan calls whose process wrote a list of result objects, or an
\* object, and exited with 0
ScanOfResults ==
    /\ call.fn = "scan"
    /\ ~call.arg.timed_out
    /\ call.arg.returncode = 0
    /\ JsonLoads(call.arg.stdout).type \in {"list", "dict"}

\* C22: the normalizer produces one finding per vulnerability of every
\* result object, in input order, each with its target and a normalized
\* severity; a result object without a vulnerability list contributes no
\* finding and is no error.
C22_OneFindingPerVulnerability ==
    ScanOfResults =>
        LET results == ResultObjects(call.arg.stdout)
            vulns == VulnerabilitiesFrom(results, 1)
        IN /\ call.ret.raised = ""
           /\ Len(call.ret.value.findings) = Len(vulns)
           /\ \A k \in 1..Len(vulns) :
                  LET finding == call.ret.value.findings[k]
                      result == results[vulns[k].result]
                      vuln == result.Vulnerabilities[vulns[k].vuln]
                  IN /\ finding.id = Get(vuln, "VulnerabilityID", "")
                     /\ finding.target = Get(result, "Target", "")
                     /\ finding.severity \in NormalizedSeverities

\* the outputs whose decoded top level is a list of result objects, or an
\* object holding one under "Results"
KnownShape(raw_output) ==
    LET data == JsonLoads(raw_output) IN
    /\ data.error = ""
    /\ \/ data.type = "list"
       \/ data.type = "dict" /\ "Results" \in DOMAIN data.value

\* C23: parsing the scanner's output succeeds only for a list of result
\* objects or an object holding one under the known key; any other shape
\* and any malformed text raises ScannerParseError, whose snippet is a
\* prefix of the text of at most 500 characters, never longer text in full.
C23_ParseAcceptsKnownShapesOnly ==
    call.fn = "_parse_trivy_output" =>
        /\ call.ret.raised = "" <=> KnownShape(call.arg)
        /\ call.ret.raised # "" => call.ret.raised = "ScannerParseError"
        /\ JsonLoads(call.arg).error # "" => call.ret.raw_output # Null
        /\ (call.ret.raised # "" /\ call.ret.raw_output # Null) =>
               /\ Len(call.ret.raw_output) <= SnippetLen
               /\ StartsWith(call.arg, call.ret.raw_output)
               /\ Len(call.arg) > SnippetLen => call.ret.raw_output # call.arg

\* the query parameters of the list requests looked at
Pages == 1..3
PageSizes == {1, 2}
StatusFilters == {Null, "pending", "failed"}
TypeFilters == {Null, "trivy", "grype"}

\* the rows of the user that pass the filters
Matching(user, status_filter, scan_type) ==
    {i \in DOMAIN scans :
        /\ scans[i].user_id = user
        /\ status_filter # Null => scans[i].status = status_filter
        /\ scan_type # Null => scans[i].scan_type = scan_type}

\* C24: list for an owner returns only jobs of that owner that match the
\* status and kind filters, ordered by creation time descending, at most
\* page_size of them starting at offset (page - 1) * page_size, and a total
\* that is the number of all matching jobs whatever the page; for an owner
\* without jobs the total is 0 and there are no items.
C24_ListPageOfOwnersJobs ==
    \A u \in Users : \A q \in RequestsAs(u) :
      \A page \in Pages : \A page_size \in PageSizes :
        \A sf \in StatusFilters : \A tf \in TypeFilters :
            LET r == ListScans(users, scans, q[1], q[2], 401, page, page_size, sf, tf)
                matching == Matching(u, sf, tf)
                offset == (page - 1) * page_size
                rest == IF Cardinality(matching) > offset
                        THEN Cardinality(matching) - offset ELSE 0
                items == r.body.scans
            IN /\ r.status = 200
               /\ r.scans = scans
               /\ r.body.total = Cardinality(matching)
               /\ Len(items) = IF rest < page_size THEN rest ELSE page_size
               /\ \A k \in 1..Len(items) :
                      /\ items[k].scan_id \in matching
                      /\ items[k] = ScanStatusResponse(scans, items[k].scan_id)
                      /\ Cardinality({i \in matching :
                             scans[i].created_at > items[k].created_at}) = offset + k - 1
               /\ (\A i \in DOMAIN scans : scans[i].user_id # u)
                      => r.body.total = 0 /\ items = << >>

\* a user who can authenticate owns two jobs in different statuses, next
\* to a job of another user
C24_Witness ==
    \E u \in Users :
        /\ RequestsAs(u) # {}
        /\ \E i, j \in DOMAIN scans :
               /\ i # j
               /\ scans[i].user_id = u /\ scans[j].user_id = u
               /\ scans[i].status # scans[j].status

\* C25: every accepted submission creates exactly one new row with a fresh
\* id, status pending and the caller as owner, publishes exactly one task
\* for it and leaves every existing row as it is; a second submission of
\* the same target by the same owner creates a second, distinct job.
C25_SubmissionCreatesOneJob ==
    \A u \in Users : \A q \in RequestsAs(u) : \A v \in RequestImages :
        ImageAccepted(v) =>
            LET id == issued + 1
                r == SubmitDockerScan(users, scans, q[1], q[2], 401, v, NoOptions, id, id, TRUE)
            IN /\ r.status = 202
               /\ r.body.scan_id = id
               /\ id \notin DOMAIN scans
               /\ DOMAIN r.scans = DOMAIN scans \cup {id}
               /\ r.scans[id].status = "pending"
               /\ r.scans[id].user_id = u
               /\ r.scans[id].input_data.image = Strip(v)
               /\ \A i \in DOMAIN scans : r.scans[i] = scans[i]
               /\ BagCardinality(r.published) = 1
               /\ \A m \in BagToSet(r.published) : m.scan_id = id /\ m.image = Strip(v)

\* two accepted submissions of one target by one owner stand as two rows
C25_Witness ==
    \E i, j \in accepted \cap DOMAIN scans :
        /\ i # j
        /\ scans[i].user_id = scans[j].user_id
        /\ scans[i].input_data = scans[j].input_data
        /\ RequestsAs(scans[i].user_id) # {}

\* the worker is in a step of its task that calls update_scan_status
Updates(w) ==
    /\ workers[w].pc \in {"received", "running"}
    /\ workers'[w].pc \in {"running", "done"}
    /\ workers'[w].pc # workers[w].pc

\* C26: whatever lifecycle updates are made, a job keeps the id, owner,
\* scan kind and stored input written at its creation: an update changes
\* status, started_at, completed_at, results and error_message only, and
\* those of the job whose id it was given only.
C26_UpdateFrame ==
    [][/\ \A id \in DOMAIN scans \cap DOMAIN scans' :
              /\ scans'[id].user_id = scans[id].user_id
              /\ scans'[id].scan_type = scans[id].scan_type
              /\ scans'[id].input_data = scans[id].input_data
       /\ \A w \in Workers :
              Updates(w) =>
                  /\ DOMAIN scans' = DOMAIN scans
                  /\ \A id \in DOMAIN scans :
                         /\ id # JobOf(w) => scans'[id] = scans[id]
                         /\ scans'[id] = [scans[id] EXCEPT
                                !.status = scans'[id].status,
                                !.started_at = scans'[id].started_at,
                                !.completed_at = scans'[id].completed_at,
                                !.results = scans'[id].results,
                                !.error_message = scans'[id].error_message]]_vars

\* a job has been marked running and failed while another stands next to it
C26_Witness ==
    \E i, j \in DOMAIN scans :
        /\ i # j
        /\ scans[i].status = "failed"
        /\ scans[i].started_at # NoTime
        /\ attempts[i] > 1
        /\ scans[j].status = "pending"

\* the task of the worker has ended with an exception
Raised(w) == workers[w].pc = "done" /\ workers[w].raised # ""

\* C27: whatever exception the execution of a job raises, the row of the
\* job is written failed with an error_message that is not empty, and the
\* worker gets free again to take the next message of the queue.
C27_ExceptionsEndFailed ==
    /\ [](\A w \in Workers :
            (Raised(w) /\ JobOf(w) \in DOMAIN scans)
                => /\ scans[JobOf(w)].status = "failed"
                   /\ scans[JobOf(w)].error_message \notin {Null, ""})
    /\ \A w \in Workers : Raised(w) ~> (workers[w].pc = "idle")

\* a task has ended with an exception while another message waits
C27_Witness ==
    \E w \in Workers :
        /\ Raised(w)
        /\ JobOf(w) \in DOMAIN scans
        /\ queue # EmptyBag

\* the process ended on its own with an exit code that is not 0
ExecutionFailure(proc) == ~proc.timed_out /\ proc.returncode # 0

\* C28: the error_message stored for an execution failure does not depend
\* on what the scanner wrote to stdout or stderr: two failed runs with the
\* same exit code store the same message, which quotes the exit code only.
C28_ErrorMessageHidesOutput ==
    (call.fn = "scan" /\ ExecutionFailure(call.arg)) =>
        LET error_msg == ErrorMessage(call.ret) IN
        /\ call.ret.raised = "ScannerExecutionError"
        /\ error_msg = "Scan execution failed: Scan failed with exit code "
                           \o ToString(call.arg.returncode)
        /\ \A proc \in ProcArguments :
               (ExecutionFailure(proc) /\ proc.returncode = call.arg.returncode)
                   => ErrorMessage(AwaitScan(ScannedImage, proc)) = error_msg

\* a scan whose process wrote to both streams and exited with 1
C28_Witness ==
    /\ call.fn = "scan"
    /\ ExecutionFailure(call.arg)
    /\ call.arg.stdout # ""
    /\ call.arg.stderr # ""
    /\ \E proc \in ProcArguments :
           /\ ExecutionFailure(proc)
           /\ proc.returncode = call.arg.returncode
           /\ proc.stderr # call.arg.stderr

\* the severity level an element of a severity list stands for, Null when
\* it stands for none
LevelOf(element) ==
    CASE element \in {"CRITICAL"} -> "CRITICAL"
      [] element \in {"HIGH", "high"} -> "HIGH"
      [] element \in {"Medium"} -> "MEDIUM"
      [] element \in {"LOW", "low"} -> "LOW"
      [] element \in {"Info"} -> "INFO"
      [] OTHER -> Null

\* the scanner type an element of a scanners list stands for
TypeOf(element) ==
    CASE element \in {"vuln", "Vuln"} -> "vuln"
      [] element \in {"Config"} -> "config"
      [] element \in {"secret", "SECRET"} -> "secret"
      [] element \in {"license"} -> "license"
      [] OTHER -> Null

AllLevels(list) == \A i \in 1..Len(list) : LevelOf(list[i]) # Null
AllTypes(list) == \A i \in 1..Len(list) : TypeOf(list[i]) # Null

\* C29: ScanRequestOptions accepts a severity list exactly when every
\* element, upper-cased, is one of CRITICAL, HIGH, MEDIUM, LOW, INFO, and a
\* scanners list exactly when every element, lower-cased, is one of vuln,
\* config, secret, license; an accepted list comes back in its order,
\* severities upper-cased and scanner types lower-cased, and a request with
\* any other list is answered 422.
C29_OptionsValidated ==
    /\ call.fn = "validate_severity" =>
           /\ call.ret.ok <=> AllLevels(call.arg)
           /\ call.ret.ok =>
                  /\ Len(call.ret.value) = Len(call.arg)
                  /\ \A i \in 1..Len(call.arg) : call.ret.value[i] = LevelOf(call.arg[i])
    /\ call.fn = "validate_scanners" =>
           /\ call.ret.ok <=> AllTypes(call.arg)
           /\ call.ret.ok =>
                  /\ Len(call.ret.value) = Len(call.arg)
                  /\ \A i \in 1..Len(call.arg) : call.ret.value[i] = TypeOf(call.arg[i])
    /\ call.fn = "submit_docker_scan" =>
           LET options == call.arg
               ok == \/ "none" \in DOMAIN options
                     \/ /\ "severity" \in DOMAIN options => AllLevels(options.severity)
                        /\ "scanners" \in DOMAIN options => AllTypes(options.scanners)
               id == issued + 1
           IN /\ call.ret.status = IF ok THEN 202 ELSE 422
              /\ ~ok => call.ret.scans = scans /\ call.ret.published = EmptyBag
              /\ (ok /\ "none" \notin DOMAIN options) =>
                     LET stored == call.ret.scans[id].input_data.options IN
                     /\ DOMAIN stored = DOMAIN options
                     /\ "severity" \in DOMAIN options =>
                            stored.severity = [i \in 1..Len(options.severity) |->
                                                  LevelOf(options.severity[i])]
                     /\ "scanners" \in DOMAIN options =>
                            stored.scanners = [i \in 1..Len(options.scanners) |->
                                                  TypeOf(options.scanners[i])]

\* a list of two severities in mixed case has been accepted and upper-cased
C29_Witness ==
    /\ call.fn = "validate_severity"
    /\ call.ret.ok
    /\ Len(call.arg) = 2
    /\ call.ret.value # call.arg

\* the place of the line in the lines, 0 when it is none of them
IndexOf(lines, line) ==
    IF \E i \in 1..Len(lines) : lines[i] = line
    THEN CHOOSE i \in 1..Len(lines) : lines[i] = line
    ELSE 0

\* the lines that tell of findings left out
Footers(lines) == {i \in 1..Len(lines) : StartsWith(lines[i], "... and ")}

\* the column of a row that holds the id, 20 characters after the 14 of the
\* severity column and its bars
IdColumn(line) == SubSeq(line, 15, 34)

\* C30: the table of a completed job with n findings and row limit L shows
\* min(n, L) finding rows, in the stored order, and the footer of the
\* findings left out exactly when n > L, telling n - L.
C30_TableRowsAndFooter ==
    (/\ call.fn = "_format_scan_as_table"
     /\ call.arg.scan.status = "completed") =>
        LET lines == call.ret
            findings == call.arg.results_data.findings
            n == Len(findings)
            L == call.arg.limit
            header == IndexOf(lines, TableHeader)
            first == header + 2
            footers == Footers(lines)
            rows == IF header = 0 THEN 0
                    ELSE Len(lines) - (first - 1) - Cardinality(footers)
        IN /\ header # 0 <=> n > 0
           /\ rows = IF n < L THEN n ELSE L
           /\ \A k \in 1..rows :
                  IdColumn(lines[first - 1 + k]) = PadRight(Prefix(findings[k].id, 20), 20)
           /\ footers # {} <=> n > L
           /\ n > L =>
                  /\ footers = {Len(lines)}
                  /\ lines[Len(lines)] =
                         "... and " \o ToString(n - L)
                             \o " more vulnerabilities (use ?limit=N to show more)"

\* a completed job with more findings than the limit has been rendered
C30_Witness ==
    /\ call.fn = "_format_scan_as_table"
    /\ call.arg.scan.status = "completed"
    /\ call.arg.limit > 1
    /\ Len(call.arg.results_data.findings) > call.arg.limit

\* the register requests for email answered 201
Registered(email) ==
    {i \in DOMAIN requests : /\ requests[i].op = "register"
                             /\ requests[i].email = email
                             /\ requests[i].status = 201}

\* C31: whatever register requests are made, no email gets two users (of
\* the requests for one email at most one is answered 201, and its user is
\* stored); a register request arriving for an email that has a user is
\* answered 409 "User with this email already exists", and no step of a
\* register request changes or removes the row, api key hash included, of a
\* user there is.
C31_OneUserPerEmail ==
    /\ [](\A email \in Users :
            /\ Cardinality(Registered(email)) <= 1
            /\ Registered(email) # {} => email \in DOMAIN users)
    /\ [][/\ \A email \in DOMAIN users :
                email \in DOMAIN users' /\ users'[email] = users[email]
          /\ \A i \in DOMAIN requests' \ DOMAIN requests :
                (requests'[i].op = "register" /\ requests'[i].email \in DOMAIN users)
                    => /\ requests'[i].pc = "done"
                       /\ requests'[i].status = 409
                       /\ requests'[i].body = EmailExists
                       /\ users' = users]_vars

\* a user was registered, and a later request for the same email, which
\* would have stored another hash, was answered 409
C31_Witness ==
    \E i, j \in DOMAIN requests :
        /\ i < j
        /\ requests[i].status = 201
        /\ requests[j].op = "register"
        /\ requests[j].status = 409
        /\ requests[j].email = requests[i].email
        /\ requests[j].salt # requests[i].salt
        /\ users[requests[i].email] = NewUser(requests[i].email, requests[i].salt)

\* the reset requests answered so far
ResetsAnswered == {i \in DOMAIN requests : requests[i].op = "reset"}

\* C32: the response of a reset request, status and body, is the same
\* for an email that has an account and for one that has none: any two
\* reset requests answered so far got the same response, and in every state
\* the handler answers every email alike, whether the mail goes out or not.
C32_ResetResponseHidesExistence ==
    /\ \A i, j \in ResetsAnswered :
          /\ requests[i].status = requests[j].status
          /\ requests[i].body = requests[j].body
    /\ \A e1, e2 \in Users, s1, s2 \in Salts, d1, d2 \in BOOLEAN :
          LET r1 == RequestReset(users, reset_tokens, e1, s1, Len(requests), d1)
              r2 == RequestReset(users, reset_tokens, e2, s2, Len(requests), d2)
          IN r1.status = r2.status /\ r1.body = r2.body

\* a reset was asked for an account there is, which stored a token, and one
\* for an email that has no account
C32_Witness ==
    \E i, j \in ResetsAnswered :
        /\ requests[i].email \in DOMAIN users
        /\ \E k \in DOMAIN reset_tokens : reset_tokens[k].email = requests[i].email
        /\ requests[j].email \notin DOMAIN users
        /\ \A k \in DOMAIN reset_tokens : reset_tokens[k].email # requests[j].email
        /\ requests[i].status = 202

\* C33: a job becomes completed only from running, and failed only from
\* running or, with the message of a validation failure, from pending; a
\* job that is completed or failed has completed_at set, and a completed job
\* has started_at set.
C33_TransitionsAndTimestamps ==
    /\ [](\A id \in DOMAIN scans :
            /\ scans[id].status \in Terminal => scans[id].completed_at # NoTime
            /\ scans[id].status = "completed" => scans[id].started_at # NoTime)
    /\ [][\A id \in DOMAIN scans \cap DOMAIN scans' :
            /\ (scans'[id].status = "completed" /\ scans[id].status # "completed")
                  => scans[id].status = "running"
            /\ (scans'[id].status = "failed" /\ scans[id].status # "failed")
                  => \/ scans[id].status = "running"
                     \/ /\ scans[id].status = "pending"
                        /\ StartsWith(scans'[id].error_message, "Invalid input: ")]_vars

\* a job has failed at its execution, by a validation failure or by a scan
\* that was run, and carries both times
C33_Witness ==
    /\ \E id \in DOMAIN scans :
          /\ scans[id].status = "failed"
          /\ StartsWith(scans[id].error_message, "Invalid input: ")
          /\ scans[id].started_at # NoTime
          /\ scans[id].completed_at # NoTime
    /\ \E id \in DOMAIN scans :
          /\ scans[id].status = "failed"
          /\ ~StartsWith(scans[id].error_message, "Invalid input: ")
          /\ scans[id].completed_at # NoTime

\* worker w is executing the task of job id: it has taken the message and
\* _run_scan has not come to its end
Executing(w, id) == workers[w].pc \in {"received", "running"} /\ JobOf(w) = id

\* C34: however a delete request of the owner falls among the executions
\* and redeliveries of the workers, no record is removed while a worker is
\* executing its job, and no worker calls the scanner for a job whose record
\* is not there any more.
C34_DeleteAndExecutionApart ==
    [][/\ \A id \in DOMAIN scans \ DOMAIN scans' :
             \A w \in Workers : ~Executing(w, id)
       /\ \A id \in ScanIds :
             attempts'[id] # attempts[id] => id \in DOMAIN scans]_vars

\* a task of job id is in the queue or held by a worker
HasTask(id) ==
    \/ \E m \in BagToSet(queue) : m.scan_id = id
    \/ \E w \in Workers : Busy(w) /\ JobOf(w) = id

\* C35: the record of a job is stored, pending, by the step that publishes
\* its task and not after it, and in every state a pending record has a task
\* in the queue or held by a worker, also after a submission whose
\* publishing failed once the record was committed.
C35_PendingHasTask ==
    /\ [](\A id \in DOMAIN scans : scans[id].status = "pending" => HasTask(id))
    /\ [][\A id \in ScanIds :
            (id > issued /\ \E m \in BagToSet(queue') : m.scan_id = id)
                => id \in DOMAIN scans' /\ scans'[id].status = "pending"]_vars

\* the target of an argument vector: its last element
TargetOf(cmd) == cmd[Len(cmd)]

\* worker w has started the scanner process for the job it holds
Invoked(w) == workers[w].pc = "done" /\ workers[w].cmd # << >>

\* C36: whenever a worker has started the scanner for a job that was
\* submitted through the API, the target in the argument vector is the
\* string the task carries and the record stores, it is trimmed, holds none
\* of the unsafe characters, is no longer than the length rule allows, matches
\* IMAGE_RE, and the host IMAGE_RE finds in it, if any, is an allowed
\* registry.
C36_ArgvTargetValidated ==
    \A w \in Workers :
        Invoked(w) =>
            LET target == TargetOf(workers[w].cmd) IN
            /\ target = workers[w].msg.image
            /\ JobOf(w) \in DOMAIN scans => target = scans[JobOf(w)].input_data.image
            /\ target = Strip(target)
            /\ target # "" /\ Len(target) <= MaxImageLen
            /\ ~HasUnsafeChar(target)
            /\ ImageReMatch(target)
            /\ MatchedHost(target) # ""
                  => RStripSlash(MatchedHost(target)) \in ALLOWED_REGISTRIES
            /\ workers[w].cmd = TrivyCommand(target, DefaultSeverity, DefaultScanners)

\* the scanner has been started for one job, while for another, whose
\* target names a registry that is not allowed, a worker raised the
\* validation error and started nothing
C36_Witness ==
    /\ \E w \in Workers : Invoked(w) /\ TargetOf(workers[w].cmd) = "nginx:latest"
    /\ \E id \in DOMAIN scans :
          /\ scans[id].input_data.image = "evil.com/app"
          /\ scans[id].status = "failed"
          /\ StartsWith(scans[id].error_message, "Invalid input: Registry not allowed")

\* the scan() calls made on their own, and what _execute_trivy ends with in
\* each
ScanCalled == call.fn = "scan"
RunOf(proc) == ExecuteTrivy(ScannedImage, DefaultSeverity, DefaultScanners, proc)

\* the outcomes of the adapter that a call of scan() shows
TimeoutOutcome(ret) == ret.raised = "ScannerTimeoutError"
FailureOutcome(ret) == ret.raised = "ScannerExecutionError"

\* C37: every run of the scanner process falls into exactly one of three
\* outcomes: a run that exceeds the timeout raises the timeout error; a run
\* that exits with a non-zero code raises the execution failure that names
\* the code; a run that exits with 0 hands its standard output, unchanged,
\* to the parser, and what scan() then returns or raises is what the parse
\* of that output gives.  What the process wrote to standard error, a
\* version banner or none, never makes a run that exited with 0 fail.
C37_OneOutcomePerRun ==
    ScanCalled =>
        LET proc == call.arg
            ret == call.ret
            run == RunOf(proc)
        IN
        /\ proc.timed_out
              => /\ TimeoutOutcome(ret) /\ ~FailureOutcome(ret)
                 /\ run.raised = "TimeoutExpired"
        /\ (~proc.timed_out /\ proc.returncode # 0)
              => /\ FailureOutcome(ret) /\ ~TimeoutOutcome(ret)
                 /\ run.raised = "CalledProcessError"
                 /\ run.returncode = proc.returncode
                 /\ ret.message = "Scan failed with exit code " \o ToString(proc.returncode)
        /\ (~proc.timed_out /\ proc.returncode = 0)
              => /\ ~TimeoutOutcome(ret) /\ ~FailureOutcome(ret)
                 /\ run.raised = ""
                 /\ run.stdout = proc.stdout
                 /\ ret = ParseAndNormalize(ScannedImage, proc.stdout,
                                            VersionOr(DetectVersion(proc.stderr)))
                 /\ \A stderr \in StderrTexts :
                       TrivyScan(ScannedImage, [proc EXCEPT !.stderr = stderr]).raised
                           = ret.raised

\* a run that exited with 0 and wrote no version banner returned a result
\* that names the default version
C37_Witness ==
    /\ ScanCalled
    /\ ~call.arg.timed_out /\ call.arg.returncode = 0
    /\ call.arg.stderr = "version: dev"
    /\ DetectVersion(call.arg.stderr) = Null
    /\ DetectVersion("trivy version: 0.56.1\n") = "0.56.1"
    /\ call.ret.raised = ""
    /\ call.ret.value.metadata.scanner_version = "trivy-" \o ScannerVersion

\* the length rule on a trimmed target
LengthRule(trimmed) == Len(trimmed) >= 1 /\ Len(trimmed) <= MaxImageLen

\* the errors with which the two validators refuse a target for its length
LengthErrors == {"Image cannot be empty", "Image name too long", "Invalid image name"}

\* C38: at submission (validate_image) and at execution (validate_input) a
\* target passes the length rule exactly when its length after trimming is
\* between 1 and 500, whatever its length before.
C38_LengthRuleAfterTrimming ==
    /\ (call.fn = "validate_image" /\ call.arg # Null)
          => (LengthRule(Strip(call.arg))
                <=> ~(~call.ret.ok /\ call.ret.value \in LengthErrors))
    /\ (call.fn = "validate_input" /\ call.arg # Null)
          => (LengthRule(Strip(call.arg)) <=> call.ret \notin LengthErrors)

====
